---- MODULE Spec2Model ----
(***************************************************************************)
(* The game server of src/server.js: the room registry, dealing, the play  *)
(* legality engine, the turn controller, the must-throw sub-state, the     *)
(* blind-card paths and the disconnect / rejoin / grace-timer protocol.    *)
(*                                                                         *)
(* Every socket handler is one action.  The handlers that act on a room    *)
(* are written as operators from the room's gameState (and the sender) to  *)
(* the gameState they leave behind plus the error they emit, so that an    *)
(* action and a property about "every such command" use the same code.     *)
(*                                                                         *)
(* The cards a command names are cards as createDeck makes them: suit,     *)
(* value and the numericValue that getNumericValue derives from the value. *)
(***************************************************************************)
EXTENDS Integers, Sequences, FiniteSets, TLC

VARIABLES
    gameRooms,      \* roomCode -> gameState (the Map of line 20)
    playerSockets,  \* socket id -> roomCode (the Map of line 21)
    ioRooms,        \* roomCode -> sockets joined to the socket.io room
    conn,           \* socket id -> "fresh" (connected, in no room yet) | "open"
                    \*              (has created, joined or rejoined) | "closed"
    playerName,     \* socket id -> the name its client entered with
                    \*              (this.playerName of public/game.js)
    timers,         \* pending grace timers, oldest first
    codesUsed,      \* number of room codes generated so far
    crashed,        \* an uncaught TypeError ended the process
    last,           \* the command that changed the state last:
                    \*   [room, cmd, sock, res, ev], and per room the name of
                    \*   the player whose takeTableCards was accepted last
                    \*   and the name of the player who created the room
    moves,          \* number of in-game commands that changed a room
    script,         \* the scripted game that is played first (SpecLate)
    warmup,         \* commands of the scripted game so far (SpecLate)
    probe           \* input and verdict of the legality check (SpecLegal)

vars == <<gameRooms, playerSockets, ioRooms, conn, playerName, timers, codesUsed,
          crashed, last, moves, script, warmup, probe>>

---------------------------------------------------------------------------
(* Bounds of the model *)

NumSuits == 2      \* suits in the deck (the program has 4)
NumSeeds == 3      \* outcomes of the shuffle that are explored
NumDeals == 12     \* outcomes of the shuffle that SpecReveal deals from
NumSockets == 3    \* connections made in a run
MaxRooms == 1      \* rooms created in a run
MaxPlay == 2       \* cards named by one playCard / playCard2WithBlind
MaxMoves == 2      \* in-game commands that change a room, in a run of Spec
LateMoves == 2     \* the same, in a run of SpecLate
MaxWarmup == 52    \* commands of the scripted game that leads to a late position
MaxDrops == 1      \* connections lost in a run
MaxCombo == 3      \* cards in a play handed to the legality check

(* Program constants *)

HandSize == 3
BlindSize == 3
MaxPlayers == 6
MinPlayers == 2
NumValues == 13

---------------------------------------------------------------------------
(* Cards and the deck *)

suits == <<"hearts", "diamonds", "clubs", "spades">>

values == <<"2", "3", "4", "5", "6", "7", "8", "9", "10", "J", "Q", "K", "A">>

parseInt(value) == CHOOSE n \in 0..99 : ToString(n) = value

getNumericValue(value) ==
    CASE value = "J" -> 11
      [] value = "Q" -> 12
      [] value = "K" -> 13
      [] value = "A" -> 14
      [] OTHER -> parseInt(value)

Card(suit, value) ==
    [suit |-> suit, value |-> value, numericValue |-> getNumericValue(value)]

\* c.suit === d.suit && c.value === d.value: the identity findIndex uses
SameCard(c, d) == c.suit = d.suit /\ c.value = d.value

\* the pseudo-random index in 0..i that Math.random yields at step i of a shuffle
randomIndex(seed, i) == (seed * 4 + i * (seed + 1) + (i * i) \div 3) % (i + 1)

Swap(deck, a, b) == [deck EXCEPT ![a] = deck[b], ![b] = deck[a]]

\* Fisher-Yates, i from length - 1 down to 1 (0-based), as a recursion on i
RECURSIVE shuffleFrom(_, _, _)
shuffleFrom(deck, seed, i) ==
    IF i < 1 THEN deck
    ELSE shuffleFrom(Swap(deck, i + 1, randomIndex(seed, i) + 1), seed, i - 1)

shuffleDeck(deck, seed) == shuffleFrom(deck, seed, Len(deck) - 1)

orderedDeck ==
    [k \in 1..(NumSuits * NumValues) |->
        Card(suits[((k - 1) \div NumValues) + 1], values[((k - 1) % NumValues) + 1])]

createDeck(seed) == shuffleDeck(orderedDeck, seed)

DeckCards == {orderedDeck[k] : k \in DOMAIN orderedDeck}

---------------------------------------------------------------------------
(* Sequence helpers standing for the Array methods the handlers use *)

Range(s) == {s[k] : k \in DOMAIN s}

\* Array.prototype.splice(index, 1), 1-based
RemoveAt(s, k) == SubSeq(s, 1, k - 1) \o SubSeq(s, k + 1, Len(s))

\* what an array holds where splice found nothing to remove: undefined
Undef == [suit |-> "undefined", value |-> "undefined", numericValue |-> -1]

\* Array.prototype.findIndex with the predicate of lines 166 and 175, 1-based:
\* 0 when nothing matches, -1 when the predicate reads a field of undefined
\* (a TypeError) before it finds a match
FindCard(s, card) ==
    LET hits == {k \in DOMAIN s : s[k] # Undef /\ SameCard(s[k], card)}
        holes == {k \in DOMAIN s : s[k] = Undef}
        first(S) == CHOOSE k \in S : \A m \in S : k <= m
    IN  IF hits = {}
        THEN IF holes = {} THEN 0 ELSE -1
        ELSE IF holes # {} /\ first(holes) < first(hits) THEN -1 ELSE first(hits)

\* index of the first player with this id (Array.prototype.find), 0 when none
FindPlayer(players, id) ==
    IF \E k \in DOMAIN players : players[k].id = id
    THEN CHOOSE k \in DOMAIN players :
            players[k].id = id /\ \A m \in 1..(k - 1) : players[m].id # id
    ELSE 0

MaxOf(S) == CHOOSE x \in S : \A y \in S : y <= x

Min(a, b) == IF a < b THEN a ELSE b

SeqsUpTo(S, n) == UNION {[1..k -> S] : k \in 1..n}

---------------------------------------------------------------------------
(* Play legality *)

\* a legality check in which 7 and 8 pass like 2 and 10
canPlayCardWith78(card, lastCardValue) ==
    IF card.numericValue \in {2, 7, 8, 10}
    THEN TRUE
    ELSE card.numericValue >= lastCardValue

canPlayCard(card, lastCardValue) ==
    IF card.numericValue = 2 \/ card.numericValue = 10
    THEN TRUE
    ELSE card.numericValue >= lastCardValue

\* a combination check that hands a single card straight to canPlayCard
canPlayCardComboLone2(cards, lastCardValue) ==
    IF Len(cards) = 1
    THEN canPlayCard(cards[1], lastCardValue)
    ELSE LET hasTwo == \E k \in DOMAIN cards : cards[k].numericValue = 2
             otherCards == {k \in DOMAIN cards : cards[k].numericValue # 2}
             firstCardValue == cards[1].numericValue
             allSameNumber ==
                 \A k \in DOMAIN cards : cards[k].numericValue = firstCardValue
         IN  IF hasTwo
             THEN otherCards # {}
             ELSE IF ~allSameNumber THEN FALSE
                  ELSE firstCardValue >= lastCardValue

\* a combination check in which the cards played with a 2 must still meet
\* lastCardValue
canPlayCardComboValid2(cards, lastCardValue) ==
    IF Len(cards) = 1
    THEN IF cards[1].numericValue = 2
         THEN FALSE
         ELSE canPlayCard(cards[1], lastCardValue)
    ELSE LET hasTwo == \E k \in DOMAIN cards : cards[k].numericValue = 2
             otherCards == {k \in DOMAIN cards : cards[k].numericValue # 2}
             firstCardValue == cards[1].numericValue
             allSameNumber ==
                 \A k \in DOMAIN cards : cards[k].numericValue = firstCardValue
         IN  IF hasTwo
             THEN /\ otherCards # {}
                  /\ \A k \in otherCards : canPlayCard(cards[k], lastCardValue)
             ELSE IF ~allSameNumber THEN FALSE
                  ELSE firstCardValue >= lastCardValue

canPlayCardCombo(cards, lastCardValue) ==
    IF Len(cards) = 1
    THEN IF cards[1].numericValue = 2
         THEN FALSE
         ELSE canPlayCard(cards[1], lastCardValue)
    ELSE LET hasTwo == \E k \in DOMAIN cards : cards[k].numericValue = 2
             otherCards == {k \in DOMAIN cards : cards[k].numericValue # 2}
             firstCardValue == cards[1].numericValue
             allSameNumber ==
                 \A k \in DOMAIN cards : cards[k].numericValue = firstCardValue
         IN  IF hasTwo
             THEN otherCards # {}
             ELSE IF ~allSameNumber THEN FALSE
                  ELSE firstCardValue >= lastCardValue

---------------------------------------------------------------------------
(* The gameState of a room and the steps of a play *)

NoSocket == 0   \* null / undefined where a socket id is expected

createGameState(roomCode, seed) ==
    [roomCode |-> roomCode,
     players |-> <<>>,
     deck |-> createDeck(seed),
     tableCards |-> <<>>,
     currentPlayerIndex |-> 0,
     gameStarted |-> FALSE,
     gameEnded |-> FALSE,
     lastCardValue |-> 0,
     turnDirection |-> 1,
     skipNextPlayer |-> FALSE,
     mustThrowAfterTaking |-> FALSE,
     playerWhoTook |-> NoSocket]

newPlayer(id, name) ==
    [id |-> id, name |-> name, handCards |-> <<>>, blindCards |-> <<>>,
     isReady |-> FALSE, disconnected |-> FALSE]

\* gameState.currentPlayer: a field no code ever assigns, so always undefined
currentPlayer(g) == NoSocket

\* players.forEach of dealInitialCards: 3 hand cards then 3 blind cards each
RECURSIVE dealFrom(_, _)
dealFrom(g, k) ==
    IF k > Len(g.players) THEN g
    ELSE LET hand == SubSeq(g.deck, 1, Min(HandSize, Len(g.deck)))
             rest == SubSeq(g.deck, Len(hand) + 1, Len(g.deck))
             blind == SubSeq(rest, 1, Min(BlindSize, Len(rest)))
             left == SubSeq(rest, Len(blind) + 1, Len(rest))
         IN  dealFrom([g EXCEPT !.players[k].handCards = hand,
                                !.players[k].blindCards = blind,
                                !.deck = left], k + 1)

\* a deal that shows the top card of the deck on the pile and leaves it in the deck
dealInitialCardsKeepsTop(g) ==
    LET d == dealFrom(g, 1)
    IN  IF Len(d.deck) > 0
        THEN [d EXCEPT !.tableCards = <<d.deck[1]>>,
                       !.lastCardValue = d.deck[1].numericValue]
        ELSE d

dealInitialCards(g) ==
    LET d == dealFrom(g, 1)
    IN  IF Len(d.deck) > 0
        THEN [d EXCEPT !.tableCards = <<d.deck[1]>>,
                       !.lastCardValue = d.deck[1].numericValue,
                       !.deck = Tail(d.deck)]
        ELSE d

\* the removal loop of lines 163-184 from card k on: every card that is found is
\* spliced out, a card that is not found is passed over, and the loop goes on.
\* fault: a findIndex predicate met undefined (TypeError)
RECURSIVE removeCards(_, _, _, _, _)
removeCards(hand, blind, cards, k, removed) ==
    IF k > Len(cards)
    THEN [hand |-> hand, blind |-> blind, removed |-> removed, fault |-> FALSE]
    ELSE LET hi == FindCard(hand, cards[k])
             bi == FindCard(blind, cards[k])
         IN  IF hi = -1
             THEN [hand |-> hand, blind |-> blind, removed |-> removed, fault |-> TRUE]
             ELSE IF hi # 0
             THEN removeCards(RemoveAt(hand, hi), blind, cards, k + 1, removed + 1)
             ELSE IF Len(hand) = 0
                  THEN IF bi = -1
                       THEN [hand |-> hand, blind |-> blind, removed |-> removed,
                             fault |-> TRUE]
                       ELSE IF bi # 0
                       THEN removeCards(hand, RemoveAt(blind, bi), cards, k + 1,
                                        removed + 1)
                       ELSE removeCards(hand, blind, cards, k + 1, removed)
                  ELSE removeCards(hand, blind, cards, k + 1, removed)

\* the value the next play must meet, set at lines 197-203
playedValue(cards) ==
    LET hasTwo == \E k \in DOMAIN cards : cards[k].numericValue = 2
        nonTwo == {cards[k].numericValue : k \in {m \in DOMAIN cards :
                                                  cards[m].numericValue # 2}}
    IN  IF hasTwo /\ Len(cards) > 1
        THEN MaxOf(nonTwo)
        ELSE cards[Len(cards)].numericValue

\* power-card effects in which a 10 empties the pile but leaves lastCardValue
powerEffectKeepsValue(g, card) ==
    IF card.numericValue = 10
    THEN [g EXCEPT !.tableCards = <<>>]
    ELSE IF card.numericValue = 7
    THEN [g EXCEPT !.currentPlayerIndex =
                       (g.currentPlayerIndex - 1 + Len(g.players)) % Len(g.players),
                   !.skipNextPlayer = TRUE]
    ELSE IF card.numericValue = 8
    THEN [g EXCEPT !.skipNextPlayer = TRUE]
    ELSE g

\* power-card effects in which a 7 turns the direction of play round
powerEffectReverses(g, card) ==
    IF card.numericValue = 10
    THEN [g EXCEPT !.tableCards = <<>>, !.lastCardValue = 0]
    ELSE IF card.numericValue = 7
    THEN [g EXCEPT !.turnDirection = 0 - g.turnDirection,
                   !.skipNextPlayer = TRUE]
    ELSE IF card.numericValue = 8
    THEN [g EXCEPT !.skipNextPlayer = TRUE]
    ELSE g

\* the effect of one power card, lines 207-221
powerEffect(g, card) ==
    IF card.numericValue = 10
    THEN [g EXCEPT !.tableCards = <<>>, !.lastCardValue = 0]
    ELSE IF card.numericValue = 7
    THEN [g EXCEPT !.currentPlayerIndex =
                       (g.currentPlayerIndex - 1 + Len(g.players)) % Len(g.players),
                   !.skipNextPlayer = TRUE]
    ELSE IF card.numericValue = 8
    THEN [g EXCEPT !.skipNextPlayer = TRUE]
    ELSE g

RECURSIVE powerEffects(_, _, _)
powerEffects(g, cards, k) ==
    IF k > Len(cards) THEN g
    ELSE powerEffects(powerEffect(g, cards[k]), cards, k + 1)

\* lines 225-234: fill the hand up to 3 from the front of the deck
replenish(g, pi) ==
    LET hand == g.players[pi].handCards
        cardsToDraw == Min(HandSize - Len(hand), Len(g.deck))
    IN  IF Len(g.deck) > 0 /\ Len(hand) < HandSize
        THEN [g EXCEPT !.players[pi].handCards = hand \o SubSeq(g.deck, 1, cardsToDraw),
                       !.deck = SubSeq(g.deck, cardsToDraw + 1, Len(g.deck))]
        ELSE g

\* handleCardPlay: [success, error, g], g being the gameState it leaves behind
handleCardPlay(g, playerId, cards) ==
    LET pi == FindPlayer(g.players, playerId)
        top == g.tableCards[Len(g.tableCards)]
        lastCardValue == IF Len(g.tableCards) > 0 THEN top.numericValue ELSE 0
    IN  IF pi = 0
        THEN [success |-> FALSE, error |-> "Player not found", g |-> g]
        ELSE IF Len(g.tableCards) > 0 /\ top = Undef
        THEN [success |-> FALSE, error |-> "TypeError", g |-> g]
        ELSE IF ~canPlayCardCombo(cards, lastCardValue)
        THEN [success |-> FALSE, error |-> "Invalid card combination", g |-> g]
        ELSE
        LET r == removeCards(g.players[pi].handCards, g.players[pi].blindCards,
                             cards, 1, 0)
            g1 == [g EXCEPT !.players[pi].handCards = r.hand,
                            !.players[pi].blindCards = r.blind]
            g2 == [g1 EXCEPT !.tableCards = g1.tableCards \o cards,
                             !.lastCardValue = playedValue(cards)]
            g3 == powerEffects(g2, cards, 1)
        IN  IF r.fault
            THEN [success |-> FALSE, error |-> "TypeError", g |-> g]
            ELSE IF r.removed # Len(cards)
            THEN [success |-> FALSE,
                  error |-> "One or more cards not found in player hand", g |-> g1]
            ELSE [success |-> TRUE, error |-> "", g |-> replenish(g3, pi)]

nextPlayer(g) ==
    IF g.skipNextPlayer
    THEN [g EXCEPT !.skipNextPlayer = FALSE,
                   !.currentPlayerIndex =
                       (g.currentPlayerIndex + g.turnDirection * 2 + Len(g.players))
                           % Len(g.players)]
    ELSE [g EXCEPT !.currentPlayerIndex =
                       (g.currentPlayerIndex + g.turnDirection + Len(g.players))
                           % Len(g.players)]

checkWinCondition(player) ==
    Len(player.handCards) = 0 /\ Len(player.blindCards) = 0

---------------------------------------------------------------------------
(* The in-game socket handlers, as operators on the sender's gameState.    *)
(* Each yields [g, res, ev]: the gameState left behind, "ok" or "ignored"  *)
(* (a silent return) or the text of the error emitted to the sender, and   *)
(* the event broadcast to the room ("" when there is none).  "TypeError"   *)
(* stands for the uncaught exception of reading a field of undefined.      *)

Outcome(g, res, ev) == [g |-> g, res |-> res, ev |-> ev]

IndexValid(g) == g.currentPlayerIndex < Len(g.players)

\* a clearing of the must-throw state that forgets to reset playerWhoTook
clearMustThrowFlagOnly(g) ==
    [g EXCEPT !.mustThrowAfterTaking = FALSE]

clearMustThrow(g) ==
    [g EXCEPT !.mustThrowAfterTaking = FALSE, !.playerWhoTook = NoSocket]

\* socket.on('playCard'), lines 386-449
playCard(g, sock, cards) ==
    IF ~g.gameStarted THEN Outcome(g, "Game not started", "")
    ELSE IF g.mustThrowAfterTaking /\ g.playerWhoTook # sock
    THEN Outcome(g, "Player who took cards must throw first", "")
    ELSE IF ~g.mustThrowAfterTaking /\ ~IndexValid(g)
    THEN Outcome(g, "TypeError", "")
    ELSE IF ~g.mustThrowAfterTaking /\ g.players[g.currentPlayerIndex + 1].id # sock
    THEN Outcome(g, "Not your turn", "")
    ELSE
    LET result == handleCardPlay(g, sock, cards)
        pi == FindPlayer(result.g.players, sock)
        wasMandatoryThrow ==
            result.g.mustThrowAfterTaking /\ result.g.playerWhoTook = sock
        g1 == IF wasMandatoryThrow THEN clearMustThrow(result.g) ELSE result.g
    IN  IF ~result.success
        THEN Outcome(result.g, result.error, "")
        ELSE IF checkWinCondition(g1.players[pi])
        THEN Outcome([g1 EXCEPT !.gameEnded = TRUE], "ok", "gameEnded")
        ELSE Outcome(nextPlayer(g1), "ok", "cardPlayed")

\* a takeTableCards that leaves lastCardValue as the pile set it
takeTableCardsKeepsValue(g, sock) ==
    IF ~g.gameStarted THEN Outcome(g, "ignored", "")
    ELSE IF ~IndexValid(g) THEN Outcome(g, "TypeError", "")
    ELSE IF g.players[g.currentPlayerIndex + 1].id # sock
    THEN Outcome(g, "Not your turn", "")
    ELSE
    LET pi == FindPlayer(g.players, sock)
    IN  Outcome([g EXCEPT !.players[pi].handCards = @ \o g.tableCards,
                          !.tableCards = <<>>,
                          !.mustThrowAfterTaking = TRUE,
                          !.playerWhoTook = sock],
                "ok", "tableCardsTaken")

\* socket.on('takeTableCards'), lines 458-491
takeTableCards(g, sock) ==
    IF ~g.gameStarted THEN Outcome(g, "ignored", "")
    ELSE IF ~IndexValid(g) THEN Outcome(g, "TypeError", "")
    ELSE IF g.players[g.currentPlayerIndex + 1].id # sock
    THEN Outcome(g, "Not your turn", "")
    ELSE
    LET pi == FindPlayer(g.players, sock)
    IN  Outcome([g EXCEPT !.players[pi].handCards = @ \o g.tableCards,
                          !.tableCards = <<>>,
                          !.lastCardValue = 0,
                          !.mustThrowAfterTaking = TRUE,
                          !.playerWhoTook = sock],
                "ok", "tableCardsTaken")

\* handCards.every(c => c.numericValue === 2): TRUE, FALSE, or "TypeError" when
\* the scan reaches undefined before it reaches a card that is not a 2
everyIsTwo(hand) ==
    LET stops == {k \in DOMAIN hand : hand[k] = Undef \/ hand[k].numericValue # 2}
        firstStop == CHOOSE k \in stops : \A m \in stops : k <= m
    IN  IF stops = {} THEN "true"
        ELSE IF hand[firstStop] = Undef THEN "TypeError" ELSE "false"

\* a revealBlindCard that sends the error of an invalid index to the room
revealBlindCardTellsRoom(g, sock, blindIndex) ==
    LET currentPlayerId ==
            IF IndexValid(g) THEN g.players[g.currentPlayerIndex + 1].id ELSE NoSocket
        pi == FindPlayer(g.players, sock)
        hand == g.players[pi].handCards
        blind == g.players[pi].blindCards
        allHandCardsAre2s == Len(hand) > 0 /\ everyIsTwo(hand) = "true"
        noHandCards == Len(hand) = 0
    IN  IF ~g.gameStarted THEN Outcome(g, "Game not found or not started", "")
        ELSE IF currentPlayerId # sock
                /\ (~g.mustThrowAfterTaking \/ g.playerWhoTook # sock)
        THEN Outcome(g, "Not your turn", "")
        ELSE IF pi = 0 THEN Outcome(g, "Player not found", "")
        ELSE IF Len(hand) > 0 /\ everyIsTwo(hand) = "TypeError"
        THEN Outcome(g, "TypeError", "")
        ELSE IF ~allHandCardsAre2s /\ ~noHandCards
        THEN Outcome(g, "Can only reveal blind cards when hand is empty or all hand cards are 2s", "")
        ELSE IF blindIndex < 0 \/ blindIndex >= Len(blind)
        THEN Outcome(g, "Invalid blind card index", "error")
        ELSE Outcome([g EXCEPT !.players[pi].blindCards = RemoveAt(blind, blindIndex + 1),
                               !.players[pi].handCards = hand \o <<blind[blindIndex + 1]>>],
                     "ok", "blindCardRevealed")

\* socket.on('revealBlindCard'), lines 501-555
revealBlindCard(g, sock, blindIndex) ==
    LET currentPlayerId ==
            IF IndexValid(g) THEN g.players[g.currentPlayerIndex + 1].id ELSE NoSocket
        pi == FindPlayer(g.players, sock)
        hand == g.players[pi].handCards
        blind == g.players[pi].blindCards
        allHandCardsAre2s == Len(hand) > 0 /\ everyIsTwo(hand) = "true"
        noHandCards == Len(hand) = 0
    IN  IF ~g.gameStarted THEN Outcome(g, "Game not found or not started", "")
        ELSE IF currentPlayerId # sock
                /\ (~g.mustThrowAfterTaking \/ g.playerWhoTook # sock)
        THEN Outcome(g, "Not your turn", "")
        ELSE IF pi = 0 THEN Outcome(g, "Player not found", "")
        ELSE IF Len(hand) > 0 /\ everyIsTwo(hand) = "TypeError"
        THEN Outcome(g, "TypeError", "")
        ELSE IF ~allHandCardsAre2s /\ ~noHandCards
        THEN Outcome(g, "Can only reveal blind cards when hand is empty or all hand cards are 2s", "")
        ELSE IF blindIndex < 0 \/ blindIndex >= Len(blind)
        THEN Outcome(g, "Invalid blind card index", "")
        ELSE Outcome([g EXCEPT !.players[pi].blindCards = RemoveAt(blind, blindIndex + 1),
                               !.players[pi].handCards = hand \o <<blind[blindIndex + 1]>>],
                     "ok", "blindCardRevealed")

\* a canRevealAnother that does not look at the rank of the revealed card
canRevealAnotherAnyRank(g, sock, blindIndex) ==
    LET pi == FindPlayer(g.players, sock)
        blind == g.players[pi].blindCards
    IN  Len(RemoveAt(blind, blindIndex + 1)) > 0

\* line 554: the canRevealAnother that an accepted revealBlindCard broadcasts
canRevealAnother(g, sock, blindIndex) ==
    LET pi == FindPlayer(g.players, sock)
        blind == g.players[pi].blindCards
        blindCard == blind[blindIndex + 1]
    IN  blindCard.numericValue = 2 /\ Len(RemoveAt(blind, blindIndex + 1)) > 0

\* lines 589-599: the index in the hand of every submitted Card 2, in submission
\* order; <<0>> when one is not found, <<-1>> when the scan met undefined
RECURSIVE card2IndicesFrom(_, _, _)
card2IndicesFrom(hand, card2s, k) ==
    IF k > Len(card2s) THEN <<>>
    ELSE LET at == FindCard(hand, card2s[k])
             index == IF at > 0 /\ hand[at].numericValue # 2 THEN 0 ELSE at
             rest == card2IndicesFrom(hand, card2s, k + 1)
         IN  IF index <= 0 THEN <<index>>
             ELSE IF rest # <<>> /\ rest[1] <= 0 THEN rest
             ELSE <<index>> \o rest

\* lines 612-615: splice the indices out of the hand from the highest down, each
\* removed element unshifted onto the list; a splice past the end yields undefined
RECURSIVE spliceDescending(_, _, _)
spliceDescending(hand, indices, removed) ==
    IF indices = <<>> THEN [hand |-> hand, removed |-> removed]
    ELSE LET m == MaxOf(Range(indices))
             pos == CHOOSE k \in DOMAIN indices : indices[k] = m
         IN  spliceDescending(IF m <= Len(hand) THEN RemoveAt(hand, m) ELSE hand,
                              RemoveAt(indices, pos),
                              <<IF m <= Len(hand) THEN hand[m] ELSE Undef>> \o removed)

\* socket.on('playCard2WithBlind'), lines 563-667
playCard2WithBlind(g, sock, card2s, blindIndex) ==
    LET pi == FindPlayer(g.players, sock)
        hand == g.players[pi].handCards
        blind == g.players[pi].blindCards
        card2Indices == card2IndicesFrom(hand, card2s, 1)
        blindCard == blind[blindIndex + 1]
        sp == spliceDescending(hand, card2Indices, <<>>)
        cardsToPlay == sp.removed \o <<blindCard>>
        g1 == [g EXCEPT !.players[pi].blindCards = RemoveAt(blind, blindIndex + 1),
                        !.players[pi].handCards = sp.hand,
                        !.tableCards = @ \o cardsToPlay,
                        !.lastCardValue = blindCard.numericValue]
        g2 == IF blindCard.numericValue \in {10, 7, 8}
              THEN powerEffect(g1, blindCard) ELSE g1
        g3 == clearMustThrow(g2)
    IN  IF ~g.gameStarted THEN Outcome(g, "Game not found or not started", "")
        ELSE IF currentPlayer(g) # sock
                /\ (~g.mustThrowAfterTaking \/ g.playerWhoTook # sock)
        THEN Outcome(g, "Not your turn", "")
        ELSE IF pi = 0 THEN Outcome(g, "Player not found", "")
        ELSE IF Len(card2s) = 0 THEN Outcome(g, "No Card 2s provided", "")
        ELSE IF card2Indices[Len(card2Indices)] = -1 THEN Outcome(g, "TypeError", "")
        ELSE IF card2Indices[Len(card2Indices)] = 0
        THEN Outcome(g, "Card 2 not found in hand", "")
        ELSE IF blindIndex < 0 \/ blindIndex >= Len(blind)
        THEN Outcome(g, "Invalid blind card index", "")
        ELSE IF Len(g3.players[pi].handCards) = 0 /\ Len(g3.players[pi].blindCards) = 0
        THEN Outcome(g3, "ok", "gameEnded")
        ELSE Outcome(nextPlayer(g3), "ok", "cardPlayed")

---------------------------------------------------------------------------
(* The server: registry, connections, timers *)

Sockets == 1..NumSockets
RoomCodes == 1..MaxRooms
Seeds == 0..(NumSeeds - 1)
NoCode == 0

\* the display name entered with createRoom / joinRoom: one name per connection
nameOf(sock) == sock

\* Connections are numbered in the order in which they first create, join or
\* rejoin.
Connected(sock) ==
    /\ ~crashed
    /\ \/ conn[sock] = "open"
       \/ conn[sock] = "fresh" /\ \A s \in 1..(sock - 1) : conn[s] # "fresh"

\* a client that is in a room sends no createRoom, joinRoom or rejoinRoom
MayEnter(sock) == Connected(sock) /\ sock \notin DOMAIN playerSockets

\* The deck covers the deal and the opening discard, as the 52 cards of the
\* program do for every roster joinRoom admits.
DeckCoversDeal(g) == Len(g.deck) >= Len(g.players) * (HandSize + BlindSize) + 1

\* gameRooms.get(playerSockets.get(socket.id)): the room code, NoCode when either
\* lookup yields undefined
roomOf(sock) ==
    IF sock \in DOMAIN playerSockets /\ playerSockets[sock] \in DOMAIN gameRooms
    THEN playerSockets[sock]
    ELSE NoCode

MapSet(f, k, v) == [x \in (DOMAIN f) \cup {k} |-> IF x = k THEN v ELSE f[x]]

MapDelete(f, k) == [x \in (DOMAIN f) \ {k} |-> f[x]]

\* the record of the command that changed the state last; took[rc] is the name
\* of the player whose takeTableCards room rc accepted last, made[rc] the name
\* of the player whose createRoom made room rc, for as long as that player is
\* on the roster (the creator is first on it: players are appended, and filter
\* keeps the order)
Did(room, cmd, sock, res, ev) ==
    [room |-> room, cmd |-> cmd, sock |-> sock, res |-> res, ev |-> ev,
     took |-> IF cmd = "takeTableCards" /\ ev = "tableCardsTaken"
              THEN [last.took EXCEPT ![room] =
                        gameRooms[room].players[
                            FindPlayer(gameRooms[room].players, sock)].name]
              ELSE last.took,
     made |-> IF cmd = "createRoom"
              THEN [last.made EXCEPT ![room] = nameOf(sock)]
              ELSE IF cmd = "graceTimer" /\ res = "ok"
                      /\ last.made[room] # NoSocket
                      /\ gameRooms[room].players[1].id = sock
              THEN [last.made EXCEPT ![room] = NoSocket]
              ELSE last.made]

NothingDone ==
    [room |-> NoCode, cmd |-> "none", sock |-> NoSocket, res |-> "ok", ev |-> "",
     took |-> [rc \in RoomCodes |-> NoSocket],
     made |-> [rc \in RoomCodes |-> NoSocket]]

\* the cards a command of this connection may name: the sender's own, and the 2s
NamedCards(sock) ==
    LET rc == roomOf(sock)
        mine == IF rc = NoCode THEN {}
                ELSE UNION {Range(gameRooms[rc].players[k].handCards)
                              \cup Range(gameRooms[rc].players[k].blindCards) :
                            k \in {m \in DOMAIN gameRooms[rc].players :
                                   gameRooms[rc].players[m].id = sock}}
    IN  (mine \ {Undef}) \cup {c \in DeckCards : c.numericValue = 2}

PlayInputs(sock) == SeqsUpTo(NamedCards(sock), MaxPlay)

\* the lists a playCard2WithBlind may carry: Card 2s (a card that is no 2 is
\* refused by line 591 like a 2 that is not in the hand), or nothing
Card2Inputs(sock) ==
    SeqsUpTo({c \in NamedCards(sock) : c.numericValue = 2}, MaxPlay) \cup {<<>>}

BlindIndexInputs == (-1)..BlindSize

\* what a handler that ran on room rc leaves behind.  A command that changes
\* nothing (a rejection, a silent return) is a stuttering step; last names the
\* command that changed the state last.
Apply(rc, cmd, sock, o) ==
    IF o.res = "TypeError"
    THEN /\ crashed' = TRUE
         /\ last' = Did(rc, cmd, sock, o.res, o.ev)
         /\ UNCHANGED <<gameRooms, playerSockets, ioRooms, conn, playerName, timers,
                        codesUsed, moves, script, warmup, probe>>
    ELSE IF o.g = gameRooms[rc]
    THEN UNCHANGED vars
    ELSE /\ gameRooms' = [gameRooms EXCEPT ![rc] = o.g]
         /\ last' = Did(rc, cmd, sock, o.res, o.ev)
         /\ moves' = moves + 1
         /\ UNCHANGED <<playerSockets, ioRooms, conn, playerName, timers, codesUsed,
                        crashed, script, warmup, probe>>

CanSend(sock) == ~crashed /\ conn[sock] = "open"

PlayCard(sock, cards, cap) ==
    /\ CanSend(sock) /\ moves < cap
    /\ roomOf(sock) # NoCode
    /\ Apply(roomOf(sock), "playCard", sock,
             playCard(gameRooms[roomOf(sock)], sock, cards))

TakeTableCards(sock, cap) ==
    /\ CanSend(sock) /\ moves < cap
    /\ roomOf(sock) # NoCode
    /\ Apply(roomOf(sock), "takeTableCards", sock,
             takeTableCards(gameRooms[roomOf(sock)], sock))

RevealBlindCard(sock, blindIndex, cap) ==
    /\ CanSend(sock) /\ moves < cap
    /\ roomOf(sock) # NoCode
    /\ Apply(roomOf(sock), "revealBlindCard", sock,
             revealBlindCard(gameRooms[roomOf(sock)], sock, blindIndex))

PlayCard2WithBlind(sock, card2s, blindIndex, cap) ==
    /\ CanSend(sock) /\ moves < cap
    /\ roomOf(sock) # NoCode
    /\ Apply(roomOf(sock), "playCard2WithBlind", sock,
             playCard2WithBlind(gameRooms[roomOf(sock)], sock, card2s, blindIndex))

\* a startGame that does not look at gameStarted
startGameAgain(g, sock) ==
    LET allReady == Len(g.players) >= MinPlayers
                    /\ \A k \in DOMAIN g.players : g.players[k].isReady
    IN  IF Len(g.players) = 0 THEN Outcome(g, "TypeError", "")
        ELSE IF g.players[1].id # sock
        THEN Outcome(g, "Only room creator can start the game", "")
        ELSE IF ~allReady THEN Outcome(g, "All players must be ready to start", "")
        ELSE Outcome(dealInitialCards([g EXCEPT !.gameStarted = TRUE]), "ok", "gameStarted")

\* socket.on('startGame'), lines 343-379
startGame(g, sock) ==
    LET allReady == Len(g.players) >= MinPlayers
                    /\ \A k \in DOMAIN g.players : g.players[k].isReady
    IN  IF g.gameStarted THEN Outcome(g, "ignored", "")
        ELSE IF Len(g.players) = 0 THEN Outcome(g, "TypeError", "")
        ELSE IF g.players[1].id # sock
        THEN Outcome(g, "Only room creator can start the game", "")
        ELSE IF ~allReady THEN Outcome(g, "All players must be ready to start", "")
        ELSE Outcome(dealInitialCards([g EXCEPT !.gameStarted = TRUE]), "ok", "gameStarted")

UNCHANGED_game == UNCHANGED <<crashed, moves, script, warmup, probe>>

\* socket.on('createRoom'), lines 263-286, from any connection
CreateRoomFrom(sock, seed) ==
    /\ Connected(sock) /\ codesUsed < MaxRooms
    /\ LET roomCode == codesUsed + 1
           g == createGameState(roomCode, seed)
       IN  /\ gameRooms' = MapSet(gameRooms, roomCode,
                                  [g EXCEPT !.players = <<newPlayer(sock, nameOf(sock))>>])
           /\ playerSockets' = MapSet(playerSockets, sock, roomCode)
           /\ ioRooms' = [ioRooms EXCEPT ![roomCode] = @ \cup {sock}]
           /\ codesUsed' = roomCode
           /\ last' = Did(roomCode, "createRoom", sock, "ok", "playerJoined")
    /\ conn' = [conn EXCEPT ![sock] = "open"]
    /\ playerName' = [playerName EXCEPT ![sock] = nameOf(sock)]
    /\ UNCHANGED timers /\ UNCHANGED_game

CreateRoom(sock, seed) == MayEnter(sock) /\ CreateRoomFrom(sock, seed)

\* a joinRoom that turns a connection away only when the roster is beyond six
joinRoomPastSix(rooms, roomCode, sock, name) ==
    IF roomCode \notin DOMAIN rooms THEN Outcome(rooms, "Room not found", "")
    ELSE IF Len(rooms[roomCode].players) > MaxPlayers
    THEN Outcome(rooms, "Room is full", "")
    ELSE IF rooms[roomCode].gameStarted
    THEN Outcome(rooms, "Game already started", "")
    ELSE Outcome([rooms EXCEPT ![roomCode].players =
                      Append(@, newPlayer(sock, name))],
                 "ok", "playerJoined")

\* socket.on('joinRoom'), lines 288-322, on the registry of rooms: the outcome
\* holds the registry it leaves
joinRoom(rooms, roomCode, sock, name) ==
    IF roomCode \notin DOMAIN rooms THEN Outcome(rooms, "Room not found", "")
    ELSE IF Len(rooms[roomCode].players) >= MaxPlayers
    THEN Outcome(rooms, "Room is full", "")
    ELSE IF rooms[roomCode].gameStarted
    THEN Outcome(rooms, "Game already started", "")
    ELSE Outcome([rooms EXCEPT ![roomCode].players =
                      Append(@, newPlayer(sock, name))],
                 "ok", "playerJoined")

\* a joinRoom that is accepted, from any connection; a rejected join changes
\* nothing
JoinRoomFrom(sock, roomCode, name) ==
    /\ Connected(sock)
    /\ \E o \in {joinRoom(gameRooms, roomCode, sock, name)} :
           o.res = "ok" /\ gameRooms' = o.g
    /\ playerSockets' = MapSet(playerSockets, sock, roomCode)
    /\ ioRooms' = [ioRooms EXCEPT ![roomCode] = @ \cup {sock}]
    /\ last' = Did(roomCode, "joinRoom", sock, "ok", "playerJoined")
    /\ conn' = [conn EXCEPT ![sock] = "open"]
    /\ playerName' = [playerName EXCEPT ![sock] = name]
    /\ UNCHANGED <<timers, codesUsed>> /\ UNCHANGED_game

JoinRoomAs(sock, roomCode, name) == MayEnter(sock) /\ JoinRoomFrom(sock, roomCode, name)

\* joinRoom under the name the connection entered
JoinRoom(sock, roomCode) == JoinRoomAs(sock, roomCode, nameOf(sock))

\* socket.on('playerReady'), lines 324-337
PlayerReady(sock) ==
    /\ CanSend(sock)
    /\ roomOf(sock) # NoCode
    /\ LET rc == roomOf(sock)
           pi == FindPlayer(gameRooms[rc].players, sock)
       IN  /\ pi # 0
           /\ ~gameRooms[rc].players[pi].isReady
           /\ gameRooms' = [gameRooms EXCEPT ![rc].players[pi].isReady = TRUE]
    /\ last' = Did(roomOf(sock), "playerReady", sock, "ok", "playerJoined")
    /\ UNCHANGED <<playerSockets, ioRooms, conn, playerName, timers, codesUsed>>
    /\ UNCHANGED_game

StartGame(sock) ==
    /\ CanSend(sock)
    /\ roomOf(sock) # NoCode
    /\ DeckCoversDeal(gameRooms[roomOf(sock)])
    /\ LET rc == roomOf(sock)
           o == startGame(gameRooms[rc], sock)
       IN  IF o.res = "TypeError"
           THEN /\ crashed' = TRUE
                /\ last' = Did(rc, "startGame", sock, o.res, o.ev)
                /\ UNCHANGED <<gameRooms, moves, script, warmup, probe>>
           ELSE /\ o.res = "ok"
                /\ gameRooms' = [gameRooms EXCEPT ![rc] = o.g]
                /\ last' = Did(rc, "startGame", sock, "ok", o.ev)
                /\ UNCHANGED_game
    /\ UNCHANGED <<playerSockets, ioRooms, conn, playerName, timers, codesUsed>>

\* socket.on('rejoinRoom'), lines 670-740, on the registry of rooms: the player
\* is found by name alone, and the first one of that name is taken
rejoinRoom(rooms, roomCode, sock, name) ==
    IF roomCode \notin DOMAIN rooms THEN Outcome(rooms, "Room no longer exists", "")
    ELSE LET g == rooms[roomCode]
             named == {k \in DOMAIN g.players : g.players[k].name = name}
             pi == CHOOSE k \in named : \A m \in named : k <= m
         IN  IF named = {} THEN Outcome(rooms, "Player not found in room", "")
             ELSE Outcome([rooms EXCEPT ![roomCode].players[pi].id = sock,
                                        ![roomCode].players[pi].disconnected = FALSE],
                          "ok", "playerJoined")

\* the socket id that rejoinRoom replaces, line 684
oldSocketId(rooms, roomCode, name) ==
    LET g == rooms[roomCode]
        named == {k \in DOMAIN g.players : g.players[k].name = name}
    IN  g.players[CHOOSE k \in named : \A m \in named : k <= m].id

\* a rejoinRoom that is accepted, from any connection; a rejected one changes
\* nothing.  A pending timer remembers that a rejoinRoom with its room and its
\* player's name was processed since it was set.
RejoinRoomFrom(sock, roomCode, name) ==
    /\ Connected(sock)
    /\ \E o \in {rejoinRoom(gameRooms, roomCode, sock, name)} :
           /\ o.res = "ok"
           /\ gameRooms' = o.g
    /\ playerSockets' = MapDelete(MapSet(playerSockets, sock, roomCode),
                                  oldSocketId(gameRooms, roomCode, name))
    /\ ioRooms' = [ioRooms EXCEPT ![roomCode] = @ \cup {sock}]
    /\ last' = Did(roomCode, "rejoinRoom", sock, "ok", "playerJoined")
    /\ conn' = [conn EXCEPT ![sock] = "open"]
    /\ playerName' = [playerName EXCEPT ![sock] = name]
    /\ timers' = [k \in DOMAIN timers |->
                     IF timers[k].roomCode = roomCode
                        /\ playerName[timers[k].sock] = name
                     THEN [timers[k] EXCEPT !.rejoined = TRUE]
                     ELSE timers[k]]
    /\ UNCHANGED codesUsed /\ UNCHANGED_game

RejoinRoom(sock, roomCode, name) == MayEnter(sock) /\ RejoinRoomFrom(sock, roomCode, name)

\* p.ready of lines 706 and 725: a property no code assigns (playerReady sets
\* isReady), so always undefined
ready(p) == FALSE

\* what rejoinRoom emits to the rejoining socket, lines 698-730, when the room
\* is g after the swap: 'gameStarted' with the state of a started game, or
\* 'roomJoined' with the stored players followed by a 'playerReady' for every
\* player whose ready is set
resyncMessage(g, sock) ==
    IF g.gameStarted
    THEN [event |-> "gameStarted",
          players |-> [k \in DOMAIN g.players |->
                          [id |-> g.players[k].id, name |-> g.players[k].name,
                           handCards |-> IF g.players[k].id = sock
                                         THEN g.players[k].handCards ELSE <<>>,
                           blindCount |-> Len(g.players[k].blindCards),
                           ready |-> ready(g.players[k])]],
          tableCards |-> g.tableCards,
          currentPlayer |-> currentPlayer(g),
          deckCount |-> Len(g.deck),
          mustThrowAfterTaking |-> g.mustThrowAfterTaking,
          playerWhoTook |-> g.playerWhoTook,
          playerReady |-> {}]
    ELSE [event |-> "roomJoined",
          players |-> g.players,
          playerReady |-> {g.players[k].id : k \in {m \in DOMAIN g.players :
                                                       ready(g.players[m])}}]

\* socket.on('disconnect'), lines 742-774: the player is marked, a timer is armed
DisconnectUpTo(sock, cap) ==
    /\ CanSend(sock)
    /\ Cardinality({s \in DOMAIN conn : conn[s] = "closed"}) < cap
    /\ conn' = [conn EXCEPT ![sock] = "closed"]
    /\ ioRooms' = [rc \in RoomCodes |-> ioRooms[rc] \ {sock}]
    /\ LET rc == roomOf(sock)
           pi == FindPlayer(gameRooms[rc].players, sock)
       IN  IF rc # NoCode /\ pi # 0
           THEN /\ gameRooms' = [gameRooms EXCEPT ![rc].players[pi].disconnected = TRUE]
                /\ timers' = Append(timers, [sock |-> sock, roomCode |-> rc,
                                             rejoined |-> FALSE])
           ELSE UNCHANGED <<gameRooms, timers>>
    /\ last' = Did(roomOf(sock), "disconnect", sock, "ok", "")
    /\ UNCHANGED <<playerSockets, playerName, codesUsed>> /\ UNCHANGED_game

Disconnect(sock) == DisconnectUpTo(sock, MaxDrops)

\* the callback of setTimeout(..., 60000), lines 755-770.  All timers wait the
\* same 60 s, so they fire in the order they were armed.
GraceTimer ==
    /\ ~crashed
    /\ timers # <<>>
    /\ timers' = Tail(timers)
    /\ LET sock == Head(timers).sock
           rc == Head(timers).roomCode
           g == gameRooms[rc]
           stillDisconnected ==
               \E k \in DOMAIN g.players :
                   g.players[k].id = sock /\ g.players[k].disconnected
           kept == SelectSeq(g.players, LAMBDA p : p.id # sock)
       IN  IF rc \in DOMAIN gameRooms /\ stillDisconnected
           THEN /\ gameRooms' = IF Len(kept) = 0
                                THEN MapDelete(gameRooms, rc)
                                ELSE [gameRooms EXCEPT ![rc].players = kept]
                /\ playerSockets' = MapDelete(playerSockets, sock)
                /\ last' = Did(rc, "graceTimer", sock, "ok",
                               IF Len(kept) = 0 THEN "" ELSE "playerLeft")
           ELSE /\ UNCHANGED <<gameRooms, playerSockets>>
                /\ last' = Did(rc, "graceTimer", sock, "ignored", "")
    /\ UNCHANGED <<ioRooms, conn, playerName, codesUsed>> /\ UNCHANGED_game

---------------------------------------------------------------------------
(* What the broadcasts carry *)

\* players.map(p => ({id, name, handCards, blindCount, ...})) of gameStarted,
\* cardPlayed, tableCardsTaken and blindCardRevealed: no blindCards field
mappedPlayers(g) ==
    [k \in DOMAIN g.players |->
        [id |-> g.players[k].id, name |-> g.players[k].name,
         handCards |-> g.players[k].handCards, blindCards |-> <<>>,
         blindCount |-> Len(g.players[k].blindCards)]]

\* players: gameState.players of playerJoined and playerLeft: the objects as the
\* server holds them
storedPlayers(g) ==
    [k \in DOMAIN g.players |->
        [id |-> g.players[k].id, name |-> g.players[k].name,
         handCards |-> g.players[k].handCards,
         blindCards |-> g.players[k].blindCards,
         blindCount |-> Len(g.players[k].blindCards)]]

\* the players list in the payload of the event ev, sent when the room is g
playersSent(g, ev) ==
    IF ev \in {"gameStarted", "cardPlayed", "tableCardsTaken", "blindCardRevealed"}
    THEN mappedPlayers(g)
    ELSE IF ev \in {"playerJoined", "playerLeft"}
    THEN storedPlayers(g)
    ELSE <<>>

\* io.to(roomCode): the sockets joined to the room; socket.to(roomCode), which
\* rejoinRoom uses, leaves the sender out
recipients(rc, cmd, sock) ==
    IF cmd = "rejoinRoom" THEN ioRooms[rc] \ {sock} ELSE ioRooms[rc]

---------------------------------------------------------------------------
(* The specification of the server *)

NoProbe == [cards |-> <<>>, lastCardValue |-> 0, verdict |-> "none"]

Init ==
    /\ gameRooms = <<>>
    /\ playerSockets = <<>>
    /\ ioRooms = [rc \in RoomCodes |-> {}]
    /\ conn = [sock \in Sockets |-> "fresh"]
    /\ playerName = [sock \in Sockets |-> NoSocket]
    /\ timers = <<>>
    /\ codesUsed = 0
    /\ crashed = FALSE
    /\ last = NothingDone
    /\ moves = 0
    /\ script = "none"
    /\ warmup = 0
    /\ probe = NoProbe

Next ==
    \/ \E sock \in Sockets, seed \in Seeds : CreateRoom(sock, seed)
    \/ \E sock \in Sockets, roomCode \in RoomCodes : JoinRoom(sock, roomCode)
    \/ \E sock \in Sockets : PlayerReady(sock)
    \/ \E sock \in Sockets : StartGame(sock)
    \/ \E sock \in Sockets : \E cards \in PlayInputs(sock) : PlayCard(sock, cards, MaxMoves)
    \/ \E sock \in Sockets : TakeTableCards(sock, MaxMoves)
    \/ \E sock \in Sockets, blindIndex \in BlindIndexInputs :
           RevealBlindCard(sock, blindIndex, MaxMoves)
    \/ \E sock \in Sockets : \E card2s \in Card2Inputs(sock) :
           \E blindIndex \in BlindIndexInputs :
               PlayCard2WithBlind(sock, card2s, blindIndex, MaxMoves)
    \/ \E sock \in Sockets, roomCode \in RoomCodes, name \in Sockets :
           RejoinRoom(sock, roomCode, name)
    \/ \E sock \in Sockets : Disconnect(sock)
    \/ GraceTimer

Spec == Init /\ [][Next]_vars

---------------------------------------------------------------------------
(* Late positions.  SpecLate starts from a room that two clients created,  *)
(* joined and started.  While no other command has changed the room, the   *)
(* player entitled to act may send the next command of a scripted game:    *)
(* clientMove, a client that plays by the rules, or rushMove, a client     *)
(* that sheds its cards through refused plays.  At any point the           *)
(* connections turn to sending whatever commands they like.                *)

actorOf(g) ==
    IF g.mustThrowAfterTaking THEN g.playerWhoTook
    ELSE g.players[g.currentPlayerIndex + 1].id

LowestOf(hand, S) ==
    CHOOSE k \in S : \A m \in S :
        \/ hand[k].numericValue < hand[m].numericValue
        \/ hand[k].numericValue = hand[m].numericValue /\ k <= m

Command(cmd, sock, cards, blindIndex) ==
    [cmd |-> cmd, sock |-> sock, cards |-> cards, blindIndex |-> blindIndex]

\* the command a simple client sends in g: its lowest card that may be played
\* alone, else a 2 with its lowest other card, else a blind card revealed (hand
\* empty or all 2s), else the pile taken
clientMove(g) ==
    LET sock == actorOf(g)
        pi == FindPlayer(g.players, sock)
        hand == g.players[pi].handCards
        blind == g.players[pi].blindCards
        threshold == IF Len(g.tableCards) > 0
                     THEN g.tableCards[Len(g.tableCards)].numericValue ELSE 0
        singles == {k \in DOMAIN hand : canPlayCardCombo(<<hand[k]>>, threshold)}
        twos == {k \in DOMAIN hand : hand[k].numericValue = 2}
        others == DOMAIN hand \ twos
    IN  IF singles # {}
        THEN Command("playCard", sock, <<hand[LowestOf(hand, singles)]>>, 0)
        ELSE IF twos # {} /\ others # {}
        THEN Command("playCard", sock,
                     <<hand[LowestOf(hand, twos)], hand[LowestOf(hand, others)]>>, 0)
        ELSE IF others = {} /\ blind # <<>>
        THEN Command("revealBlindCard", sock, <<>>, 0)
        ELSE Command("takeTableCards", sock, <<>>, 0)

\* the command of a client in a hurry: with the pile taken and nothing but 2s in
\* hand, the 2s with blind card 0; a card that is no 2 named together with a 2
\* the client does not hold (the play is refused, lines 186-188, after the card
\* was spliced out); the last blind card played; a blind card revealed; else
\* the pile taken
rushMove(g) ==
    LET sock == actorOf(g)
        pi == FindPlayer(g.players, sock)
        hand == g.players[pi].handCards
        blind == g.players[pi].blindCards
        threshold == IF Len(g.tableCards) > 0
                     THEN g.tableCards[Len(g.tableCards)].numericValue ELSE 0
        twos == {k \in DOMAIN hand : hand[k].numericValue = 2}
        others == DOMAIN hand \ twos
        spare == {c \in DeckCards : c.numericValue = 2
                                    /\ c \notin Range(hand) \cup Range(blind)}
        decoy == CHOOSE c \in spare : TRUE
    IN  IF g.mustThrowAfterTaking /\ twos # {} /\ others = {} /\ blind # <<>>
        THEN Command("playCard2WithBlind", sock, hand, 0)
        ELSE IF others # {} /\ spare # {}
        THEN Command("playCard", sock, <<hand[LowestOf(hand, others)], decoy>>, 0)
        ELSE IF hand = <<>> /\ Len(blind) > 1 /\ spare # {}
        THEN Command("playCard", sock, <<blind[1], decoy>>, 0)
        ELSE IF hand = <<>> /\ Len(blind) = 1
                /\ canPlayCardCombo(<<blind[1]>>, threshold)
        THEN Command("playCard", sock, <<blind[1]>>, 0)
        ELSE IF twos # {} /\ others = {} /\ Len(blind) > 1
        THEN Command("revealBlindCard", sock, <<>>, 0)
        ELSE Command("takeTableCards", sock, <<>>, 0)

\* the handler of the command, run on g
handle(g, c) ==
    CASE c.cmd = "playCard" -> playCard(g, c.sock, c.cards)
      [] c.cmd = "takeTableCards" -> takeTableCards(g, c.sock)
      [] c.cmd = "revealBlindCard" -> revealBlindCard(g, c.sock, c.blindIndex)
      [] c.cmd = "playCard2WithBlind" ->
             playCard2WithBlind(g, c.sock, c.cards, c.blindIndex)

Scripts == {"client", "rush"}

\* the room after createRoom by 1, joinRoom by 2, both ready, startGame by 1
startedRoom(seed) ==
    LET g == createGameState(1, seed)
        p1 == [newPlayer(1, nameOf(1)) EXCEPT !.isReady = TRUE]
        p2 == [newPlayer(2, nameOf(2)) EXCEPT !.isReady = TRUE]
    IN  startGame([g EXCEPT !.players = <<p1, p2>>], 1).g

InitLate ==
    /\ \E seed \in Seeds : gameRooms = MapSet(<<>>, 1, startedRoom(seed))
    /\ playerSockets = MapSet(MapSet(<<>>, 1, 1), 2, 1)
    /\ ioRooms = [rc \in RoomCodes |-> IF rc = 1 THEN {1, 2} ELSE {}]
    /\ conn = [sock \in Sockets |-> IF sock \in {1, 2} THEN "open" ELSE "fresh"]
    /\ playerName = [sock \in Sockets |-> IF sock \in {1, 2} THEN nameOf(sock)
                                           ELSE NoSocket]
    /\ timers = <<>>
    /\ codesUsed = 1
    /\ crashed = FALSE
    /\ last = [NothingDone EXCEPT !.room = 1, !.cmd = "startGame", !.sock = 1,
                                  !.ev = "gameStarted", !.made[1] = nameOf(1)]
    /\ moves = 0
    /\ script \in Scripts
    /\ warmup = 0
    /\ probe = NoProbe

ScriptedMove ==
    /\ ~crashed /\ moves = 0 /\ warmup < MaxWarmup
    /\ ~gameRooms[1].gameEnded
    /\ \E c \in {IF script = "rush" THEN rushMove(gameRooms[1])
                 ELSE clientMove(gameRooms[1])} :
           \E o \in {handle(gameRooms[1], c)} :
               /\ o.res # "TypeError"
               /\ o.g # gameRooms[1]
               /\ gameRooms' = [gameRooms EXCEPT ![1] = o.g]
               /\ last' = Did(1, c.cmd, c.sock, o.res, o.ev)
    /\ warmup' = warmup + 1
    /\ UNCHANGED <<playerSockets, ioRooms, conn, playerName, timers, codesUsed,
                   crashed, moves, script, probe>>

NextLate ==
    \/ ScriptedMove
    \/ \E sock \in Sockets : \E cards \in PlayInputs(sock) :
           PlayCard(sock, cards, LateMoves)
    \/ \E sock \in Sockets : TakeTableCards(sock, LateMoves)
    \/ \E sock \in Sockets, blindIndex \in BlindIndexInputs :
           RevealBlindCard(sock, blindIndex, LateMoves)
    \/ \E sock \in Sockets : \E card2s \in Card2Inputs(sock) :
           \E blindIndex \in BlindIndexInputs :
               PlayCard2WithBlind(sock, card2s, blindIndex, LateMoves)

SpecLate == InitLate /\ [][NextLate]_vars

---------------------------------------------------------------------------
(* Blind cards.  SpecReveal starts like SpecLate, from a started room of    *)
(* two players, over more shuffles: among them are deals that put a 2 into *)
(* a blind set, so that a 2 can be the blind card a player reveals last.   *)

DealSeeds == 0..(NumDeals - 1)

InitReveal ==
    /\ \E seed \in DealSeeds : gameRooms = MapSet(<<>>, 1, startedRoom(seed))
    /\ playerSockets = MapSet(MapSet(<<>>, 1, 1), 2, 1)
    /\ ioRooms = [rc \in RoomCodes |-> IF rc = 1 THEN {1, 2} ELSE {}]
    /\ conn = [sock \in Sockets |-> IF sock \in {1, 2} THEN "open" ELSE "fresh"]
    /\ playerName = [sock \in Sockets |-> IF sock \in {1, 2} THEN nameOf(sock)
                                           ELSE NoSocket]
    /\ timers = <<>>
    /\ codesUsed = 1
    /\ crashed = FALSE
    /\ last = [NothingDone EXCEPT !.room = 1, !.cmd = "startGame", !.sock = 1,
                                  !.ev = "gameStarted", !.made[1] = nameOf(1)]
    /\ moves = 0
    /\ script \in Scripts
    /\ warmup = 0
    /\ probe = NoProbe

SpecReveal == InitReveal /\ [][NextLate]_vars

---------------------------------------------------------------------------
(* The deal.  SpecDeal starts from a lobby of two players that holds the   *)
(* deck of the program, all four suits, in any of the shuffles; further    *)
(* connections join, one more than a roster takes, the players get ready   *)
(* and the creator starts the game.                                        *)

Guests == 1..(MaxPlayers + 1)

\* lines 29-38: every value of every suit
fullDeck ==
    [k \in 1..(Len(suits) * NumValues) |->
        Card(suits[((k - 1) \div NumValues) + 1], values[((k - 1) % NumValues) + 1])]

DeckSize == Len(fullDeck)

\* the room after createRoom by 1 and joinRoom by 2..n
lobbyRoom(n, seed) ==
    [createGameState(1, seed) EXCEPT
        !.deck = shuffleDeck(fullDeck, seed),
        !.players = [k \in 1..n |-> newPlayer(k, nameOf(k))]]

InitDeal ==
    /\ \E seed \in DealSeeds :
          gameRooms = MapSet(<<>>, 1, lobbyRoom(MinPlayers, seed))
    /\ playerSockets = [sock \in 1..MinPlayers |-> 1]
    /\ ioRooms = [rc \in RoomCodes |-> IF rc = 1 THEN 1..MinPlayers ELSE {}]
    /\ conn = [sock \in Guests |-> IF sock <= MinPlayers THEN "open" ELSE "fresh"]
    /\ playerName = [sock \in Guests |->
                        IF sock <= MinPlayers THEN nameOf(sock) ELSE NoSocket]
    /\ last = [NothingDone EXCEPT !.room = 1, !.cmd = "joinRoom",
                                  !.sock = MinPlayers, !.ev = "playerJoined",
                                  !.made[1] = nameOf(1)]
    /\ timers = <<>>
    /\ codesUsed = 1
    /\ crashed = FALSE
    /\ moves = 0
    /\ script = "none"
    /\ warmup = 0
    /\ probe = NoProbe

NextDeal ==
    \/ \E sock \in Guests, roomCode \in RoomCodes : JoinRoom(sock, roomCode)
    \/ \E sock \in Guests : PlayerReady(sock)
    \/ \E sock \in Guests : StartGame(sock)

SpecDeal == InitDeal /\ [][NextDeal]_vars

---------------------------------------------------------------------------
(* The legality check on its own: any play of up to MaxCombo cards, one    *)
(* card of every value, against any lastCardValue.                         *)

\* the highest numericValue there is, that of the ace
MaxValue == 14

LegalCards == {Card(suits[1], values[k]) : k \in DOMAIN values}

InitLegal ==
    /\ gameRooms = <<>>
    /\ playerSockets = <<>>
    /\ ioRooms = [rc \in RoomCodes |-> {}]
    /\ conn = [sock \in Sockets |-> "fresh"]
    /\ playerName = [sock \in Sockets |-> NoSocket]
    /\ timers = <<>>
    /\ codesUsed = 0
    /\ crashed = FALSE
    /\ last = NothingDone
    /\ moves = 0
    /\ script = "none"
    /\ warmup = 0
    /\ \E cards \in SeqsUpTo(LegalCards, MaxCombo), lastCardValue \in 0..MaxValue :
           probe = [cards |-> cards, lastCardValue |-> lastCardValue,
                    verdict |-> "none"]

CheckCombo ==
    /\ probe.verdict = "none"
    /\ probe' = [probe EXCEPT !.verdict =
                     IF canPlayCardCombo(probe.cards, probe.lastCardValue)
                     THEN "legal" ELSE "illegal"]
    /\ UNCHANGED <<gameRooms, playerSockets, ioRooms, conn, playerName, timers,
                   codesUsed, crashed, last, moves, script, warmup>>

NextLegal == CheckCombo

SpecLegal == InitLegal /\ [][NextLegal]_vars

---------------------------------------------------------------------------
(* Connections.  SpecConn follows one room through connections that come   *)
(* and go: players enter under names of their choice, a game is started,   *)
(* connections close and are replaced, and the grace timers fire in the    *)
(* order they were set.                                                    *)

NumCallers == 4    \* connections made in a run of SpecConn
NumNames == 2      \* display names a joining player chooses from
ConnDrops == 2     \* connections that close in a run of SpecConn

Callers == 1..NumCallers
Names == 1..NumNames

InitConn ==
    /\ gameRooms = <<>>
    /\ playerSockets = <<>>
    /\ ioRooms = [rc \in RoomCodes |-> {}]
    /\ conn = [sock \in Callers |-> "fresh"]
    /\ playerName = [sock \in Callers |-> NoSocket]
    /\ timers = <<>>
    /\ codesUsed = 0
    /\ crashed = FALSE
    /\ last = NothingDone
    /\ moves = 0
    /\ script = "none"
    /\ warmup = 0
    /\ probe = NoProbe

NextConn ==
    \/ \E sock \in Callers : CreateRoom(sock, 0)
    \/ \E sock \in Callers, roomCode \in RoomCodes, name \in Names :
           JoinRoomAs(sock, roomCode, name)
    \/ \E sock \in Callers : PlayerReady(sock)
    \/ \E sock \in Callers : StartGame(sock)
    \/ \E sock \in Callers, roomCode \in RoomCodes, name \in Names :
           RejoinRoom(sock, roomCode, name)
    \/ \E sock \in Callers : DisconnectUpTo(sock, ConnDrops)
    \/ GraceTimer

SpecConn == InitConn /\ [][NextConn]_vars

---------------------------------------------------------------------------
(* The registry.  SpecRegistry applies createRoom, joinRoom, rejoinRoom,    *)
(* disconnect and the grace timer in any order and from any connection,    *)
(* also from one that is in a room already.                                *)

RosterCap == 3     \* players on a roster in a run of SpecRegistry

NextRegistry ==
    \/ \E sock \in Sockets : CreateRoomFrom(sock, 0)
    \/ \E sock \in Sockets, roomCode \in DOMAIN gameRooms, name \in Sockets :
           /\ Len(gameRooms[roomCode].players) < RosterCap
           /\ JoinRoomFrom(sock, roomCode, name)
    \/ \E sock \in Sockets, roomCode \in RoomCodes, name \in Sockets :
           RejoinRoomFrom(sock, roomCode, name)
    \/ \E sock \in Sockets : DisconnectUpTo(sock, ConnDrops)
    \/ GraceTimer

SpecRegistry == Init /\ [][NextRegistry]_vars

---------------------------------------------------------------------------
(* Properties *)

\* the connections whose commands reach room rc
Members(rc) == {sock \in DOMAIN conn : roomOf(sock) = rc}

\* the sender is the one whose play lines 392-400 let through
Entitled(g, sock) ==
    IF g.mustThrowAfterTaking THEN g.playerWhoTook = sock
    ELSE IndexValid(g) /\ g.players[g.currentPlayerIndex + 1].id = sock

\* the errors that tell a sender it is not the one to act
TurnErrors == {"Not your turn", "Player who took cards must throw first"}

\* the command was turned down and the room is as it was
Refused(g, o) == o.res # "ok" /\ o.ev = "" /\ o.g = g

RECURSIVE cardsOfPlayers(_, _)
cardsOfPlayers(players, k) ==
    IF k > Len(players) THEN <<>>
    ELSE players[k].handCards \o players[k].blindCards
             \o cardsOfPlayers(players, k + 1)

\* every card the room holds: deck, pile, hands and blind sets
cardsIn(g) == g.deck \o g.tableCards \o cardsOfPlayers(g.players, 1)

copies(c, g) == Cardinality({k \in DOMAIN cardsIn(g) : cardsIn(g)[k] = c})

\* C1: card conservation.  In a started game no command, accepted or rejected,
\* and no timer changes how often a card occurs in the deck, the hands, the
\* blind sets and the pile taken together, except that a play with a 10 takes
\* the cards of the pile, each held once, out of the game; nothing that is no
\* card of the deck ever appears.
C1_CardConservation ==
    [][\A rc \in (DOMAIN gameRooms) \cap (DOMAIN gameRooms') :
          gameRooms[rc].gameStarted =>
              \A c \in DeckCards \cup {Undef} :
                  \/ copies(c, gameRooms'[rc]) = copies(c, gameRooms[rc])
                  \/ /\ copies(c, gameRooms[rc]) = 1
                     /\ copies(c, gameRooms'[rc]) = 0
                     /\ last'.room = rc /\ last'.res = "ok"
                     /\ last'.cmd \in {"playCard", "playCard2WithBlind"}
                     /\ gameRooms'[rc].tableCards = <<>>]_vars

\* C2: all-or-nothing playCard.  A playCard of the player entitled to act that is
\* rejected because a submitted card is not found leaves the gameState (hands,
\* blind sets, pile, lastCardValue, turn pointer) exactly as it was.
C2_AllOrNothing ==
    \A rc \in DOMAIN gameRooms : \A sock \in Members(rc) :
        \A cards \in PlayInputs(sock) :
            LET g == gameRooms[rc]
                o == playCard(g, sock, cards)
            IN  (Entitled(g, sock)
                 /\ o.res = "One or more cards not found in player hand")
                    => o.g = g

\* C3: a room that has ended refuses every playCard, takeTableCards,
\* revealBlindCard and playCard2WithBlind and stays as it is; no second
\* gameEnded is broadcast.
C3_EndedRoomRefuses ==
    \A rc \in DOMAIN gameRooms :
        gameRooms[rc].gameEnded =>
            \A sock \in Members(rc) :
                LET g == gameRooms[rc]
                IN  /\ Refused(g, takeTableCards(g, sock))
                    /\ \A cards \in PlayInputs(sock) :
                           Refused(g, playCard(g, sock, cards))
                    /\ \A blindIndex \in BlindIndexInputs :
                           Refused(g, revealBlindCard(g, sock, blindIndex))
                    /\ \A card2s \in Card2Inputs(sock) :
                           \A blindIndex \in BlindIndexInputs :
                               Refused(g, playCard2WithBlind(g, sock, card2s,
                                                             blindIndex))

\* the play o of sock, if it succeeded and left sock without hand and blind
\* cards, set gameEnded and broadcast gameEnded
WinHandled(sock, o) ==
    LET pi == FindPlayer(o.g.players, sock)
    IN  (o.res = "ok" /\ pi # 0 /\ checkWinCondition(o.g.players[pi]))
            => o.g.gameEnded /\ o.ev = "gameEnded"

\* C4: win detection.  Every successful play, through playCard or through
\* playCard2WithBlind, that leaves the acting player with an empty hand and an
\* empty blind set sets the room's gameEnded flag and announces the end.
C4_WinDetected ==
    \A rc \in DOMAIN gameRooms : \A sock \in Members(rc) :
        LET g == gameRooms[rc]
        IN  /\ \A cards \in PlayInputs(sock) : WinHandled(sock, playCard(g, sock, cards))
            /\ \A card2s \in Card2Inputs(sock) : \A blindIndex \in BlindIndexInputs :
                   WinHandled(sock, playCard2WithBlind(g, sock, card2s, blindIndex))

\* the command was rejected with a not-your-turn error and changed nothing
TurnedAway(g, o) == o.res \in TurnErrors /\ o.g = g

\* sock acts for a player of room rc other than the one who took the pile last
OtherThanTaker(rc, sock) ==
    LET pi == FindPlayer(gameRooms[rc].players, sock)
    IN  pi # 0 /\ gameRooms[rc].players[pi].name # last.took[rc]

\* C5: must-throw exclusivity.  While a room is waiting for the player who took
\* the pile to throw, every playCard, takeTableCards and revealBlindCard of any
\* other player is rejected with a not-your-turn error and changes nothing.
C5_MustThrowExclusive ==
    \A rc \in DOMAIN gameRooms :
        LET g == gameRooms[rc]
        IN  (g.gameStarted /\ g.mustThrowAfterTaking) =>
                \A sock \in Members(rc) :
                    OtherThanTaker(rc, sock) =>
                        /\ TurnedAway(g, takeTableCards(g, sock))
                        /\ \A cards \in PlayInputs(sock) :
                               TurnedAway(g, playCard(g, sock, cards))
                        /\ \A blindIndex \in BlindIndexInputs :
                               TurnedAway(g, revealBlindCard(g, sock, blindIndex))

\* C6: in every room whose roster is not empty, currentPlayerIndex is an index
\* of the roster: 0 <= currentPlayerIndex < number of players.
C6_IndexInRoster ==
    \A rc \in DOMAIN gameRooms :
        Len(gameRooms[rc].players) > 0 =>
            /\ 0 <= gameRooms[rc].currentPlayerIndex
            /\ gameRooms[rc].currentPlayerIndex < Len(gameRooms[rc].players)

\* C7: hidden information.  The players list of the broadcast sent last shows a
\* recipient no hand card and no blind card of a player other than itself.
C7_HiddenInformation ==
    \A rc \in DOMAIN gameRooms :
        last.room = rc =>
            \A r \in recipients(rc, last.cmd, last.sock) :
                LET sent == playersSent(gameRooms[rc], last.ev)
                IN  \A k \in DOMAIN sent :
                        sent[k].id # r =>
                            sent[k].handCards = <<>> /\ sent[k].blindCards = <<>>

C9_SingleCardLegality ==
    (probe.verdict # "none" /\ Len(probe.cards) = 1 /\ probe.cards[1].value # "2")
        => (probe.verdict = "legal"
                <=> \/ probe.cards[1].value = "10"
                    \/ getNumericValue(probe.cards[1].value) >= probe.lastCardValue)

\* an 8 on its own against a 9 was checked and found illegal
C9_Witness ==
    /\ probe.verdict = "illegal"
    /\ Len(probe.cards) = 1 /\ probe.cards[1].value = "8"
    /\ probe.lastCardValue = 9

\* C10: combo legality.  A play of two or more cards passes the check exactly
\* when (a) it holds a 2 and a card of another rank, whatever the other ranks
\* and lastCardValue, or (b) it holds no 2, all its cards have one numeric
\* value, and that value is at least lastCardValue.  2s alone do not pass.
C10_ComboLegality ==
    LET ranks == {probe.cards[k].value : k \in DOMAIN probe.cards}
    IN  (probe.verdict # "none" /\ Len(probe.cards) >= 2)
            => (probe.verdict = "legal"
                    <=> \/ "2" \in ranks /\ ranks # {"2"}
                        \/ /\ "2" \notin ranks
                           /\ Cardinality(ranks) = 1
                           /\ \A v \in ranks : getNumericValue(v) >= probe.lastCardValue)

\* a 2 with a 3 against a 9 was checked and found legal
C10_Witness ==
    /\ probe.verdict = "legal"
    /\ Len(probe.cards) = 2
    /\ {probe.cards[k].value : k \in DOMAIN probe.cards} = {"2", "3"}
    /\ probe.lastCardValue = 9

\* the value a play on g must meet: the numeric value of the card on top of the
\* pile, 0 on an empty pile (read by handleCardPlay before the legality check)
pileThreshold(g) ==
    IF Len(g.tableCards) > 0
    THEN g.tableCards[Len(g.tableCards)].numericValue
    ELSE 0

\* the numeric values of the cards of a play
ranksOf(cards) == {cards[k].numericValue : k \in DOMAIN cards}

\* C11: after a successful wild combo (a 2 with at least one card of another
\* rank, no 10), the value the next play must meet is the highest value among
\* the combo's cards that are no 2, in whatever order the cards were submitted.
C11_WildComboThreshold ==
    \A rc \in DOMAIN gameRooms : \A sock \in Members(rc) :
        \A cards \in PlayInputs(sock) :
            LET g == gameRooms[rc]
                o == playCard(g, sock, cards)
            IN  (/\ o.res = "ok"
                 /\ 2 \in ranksOf(cards) /\ ranksOf(cards) # {2}
                 /\ 10 \notin ranksOf(cards))
                    => pileThreshold(o.g) = MaxOf(ranksOf(cards) \ {2})

\* the state left by a command was reached without an uncaught exception and
\* the command was turned down without changing the room
Rejected(g, o) == o.res \notin {"ok", "TypeError"} /\ o.ev = "" /\ o.g = g

\* sock acts for a player of g who is not the one at currentPlayerIndex
NotCurrent(g, sock) ==
    /\ FindPlayer(g.players, sock) # 0
    /\ ~(IndexValid(g) /\ g.players[g.currentPlayerIndex + 1].id = sock)

\* C12: turn exclusivity.  In a started game with no must-throw pending, every
\* playCard, takeTableCards and revealBlindCard of a player other than the one
\* at currentPlayerIndex is rejected and leaves the gameState as it was.
C12_TurnExclusive ==
    \A rc \in DOMAIN gameRooms :
        LET g == gameRooms[rc]
        IN  (g.gameStarted /\ ~g.mustThrowAfterTaking) =>
                \A sock \in Members(rc) :
                    NotCurrent(g, sock) =>
                        /\ Rejected(g, takeTableCards(g, sock))
                        /\ \A cards \in PlayInputs(sock) :
                               Rejected(g, playCard(g, sock, cards))
                        /\ \A blindIndex \in BlindIndexInputs :
                               Rejected(g, revealBlindCard(g, sock, blindIndex))

\* the index in the roster (from 0, as currentPlayerIndex counts) of the player
\* sock acts for
indexOf(g, sock) == FindPlayer(g.players, sock) - 1

\* o is the outcome of a play that succeeded and did not end the game
PlayedOn(o) == o.res = "ok" /\ o.ev = "cardPlayed"

\* C13: ordinary turn advancement.  After a successful playCard of the player at
\* index i that holds no 7 and no 8 and does not win, in a roster of n players,
\* currentPlayerIndex is (i + 1) mod n and skipNextPlayer is false.
C13_OrdinaryAdvance ==
    \A rc \in DOMAIN gameRooms : \A sock \in Members(rc) :
        \A cards \in PlayInputs(sock) :
            LET g == gameRooms[rc]
                o == playCard(g, sock, cards)
            IN  (PlayedOn(o) /\ ranksOf(cards) \cap {7, 8} = {})
                    => /\ o.g.currentPlayerIndex
                              = (indexOf(g, sock) + 1) % Len(g.players)
                       /\ ~o.g.skipNextPlayer

\* how many cards of the play have numeric value v
countOf(cards, v) == Cardinality({k \in DOMAIN cards : cards[k].numericValue = v})

\* C14: rank-7 effect.  After a successful play of the player at index i that
\* holds exactly one 7 and no 8 and does not win, in a roster of n >= 3
\* players, the player to act next is the previous one in the turn cycle, at
\* index (i - 1) mod n.
C14_SevenGoesBack ==
    \A rc \in DOMAIN gameRooms : \A sock \in Members(rc) :
        \A cards \in PlayInputs(sock) :
            LET g == gameRooms[rc]
                o == playCard(g, sock, cards)
                n == Len(g.players)
            IN  (/\ PlayedOn(o) /\ n >= 3
                 /\ countOf(cards, 7) = 1 /\ countOf(cards, 8) = 0)
                    => o.g.currentPlayerIndex = (indexOf(g, sock) - 1 + n) % n

\* C15: rank-8 effect.  After a successful play of the player at index i that
\* holds an 8 and no 7 and does not win, in a roster of n players, exactly one
\* player is skipped: currentPlayerIndex is (i + 2) mod n, and skipNextPlayer is
\* false again.
C15_EightSkipsOne ==
    \A rc \in DOMAIN gameRooms : \A sock \in Members(rc) :
        \A cards \in PlayInputs(sock) :
            LET g == gameRooms[rc]
                o == playCard(g, sock, cards)
                n == Len(g.players)
            IN  (/\ PlayedOn(o)
                 /\ countOf(cards, 8) >= 1 /\ countOf(cards, 7) = 0)
                    => /\ o.g.currentPlayerIndex = (indexOf(g, sock) + 2) % n
                       /\ ~o.g.skipNextPlayer

\* a play that succeeded left the pile empty and lastCardValue 0
PlayClears(o) ==
    o.res = "ok" => o.g.tableCards = <<>> /\ o.g.lastCardValue = 0

\* every successful play with a 10 on the current state clears the pile: a
\* playCard that names a 10, a playCard2WithBlind whose blind card is a 10
TenClearsPile ==
    \A rc \in DOMAIN gameRooms : \A sock \in Members(rc) :
        LET g == gameRooms[rc]
            pi == FindPlayer(g.players, sock)
        IN  /\ \A cards \in PlayInputs(sock) :
                   10 \in ranksOf(cards) => PlayClears(playCard(g, sock, cards))
            /\ \A card2s \in Card2Inputs(sock) :
                   \A blindIndex \in 0..(BlindSize - 1) :
                       (/\ pi # 0
                        /\ blindIndex < Len(g.players[pi].blindCards)
                        /\ g.players[pi].blindCards[blindIndex + 1] # Undef
                        /\ g.players[pi].blindCards[blindIndex + 1].numericValue = 10)
                           => PlayClears(playCard2WithBlind(g, sock, card2s, blindIndex))

\* a card that is in no deck, hand, blind set or pile of a started game is in
\* none after the step
GoneStaysGone ==
    \/ gameRooms' = gameRooms
    \/ \A rc \in (DOMAIN gameRooms) \cap (DOMAIN gameRooms') :
           gameRooms[rc].gameStarted =>
               Range(cardsIn(gameRooms'[rc])) \subseteq Range(cardsIn(gameRooms[rc]))

\* C16: rank-10 clear.  After every successful play that holds a 10 (alone, in
\* an equal-rank combo, in a wild combo, or as the blind card of
\* playCard2WithBlind) the pile is empty and lastCardValue is 0, and no card
\* that has left the game appears again in a deck, hand, blind set or pile.
C16_TenClears == []TenClearsPile /\ [][GoneStaysGone]_vars

\* a playCard that was played on has just emptied the pile, and a 10 has left
\* the game
C16_Witness ==
    \E rc \in DOMAIN gameRooms :
        /\ last.room = rc /\ last.cmd = "playCard" /\ last.ev = "cardPlayed"
        /\ gameRooms[rc].tableCards = <<>> /\ gameRooms[rc].lastCardValue = 0
        /\ \E c \in DeckCards : c.value = "10" /\ copies(c, gameRooms[rc]) = 0

C18_MandatoryThrowResolved ==
    \A rc \in DOMAIN gameRooms : \A sock \in Members(rc) :
        \A cards \in PlayInputs(sock) :
            LET g == gameRooms[rc]
                o == playCard(g, sock, cards)
            IN  (/\ g.mustThrowAfterTaking /\ g.playerWhoTook = sock
                 /\ ~OtherThanTaker(rc, sock)
                 /\ PlayedOn(o) /\ ranksOf(cards) \cap {2, 7, 8, 10} = {})
                    => /\ ~o.g.mustThrowAfterTaking
                       /\ o.g.playerWhoTook = NoSocket
                       /\ o.g.currentPlayerIndex
                              = (indexOf(g, sock) + 1) % Len(g.players)

\* C19: in every room mustThrowAfterTaking is true exactly when playerWhoTook is
\* not null.
C19_FlagsTogether ==
    \A rc \in DOMAIN gameRooms :
        gameRooms[rc].mustThrowAfterTaking <=> gameRooms[rc].playerWhoTook # NoSocket

\* a room in which the pile was taken and the taker's play has put both fields
\* back
C19_Witness ==
    \E rc \in DOMAIN gameRooms :
        /\ last.room = rc /\ last.cmd = "playCard" /\ last.res = "ok"
        /\ last.took[rc] # NoSocket
        /\ ~gameRooms[rc].mustThrowAfterTaking
        /\ gameRooms[rc].playerWhoTook = NoSocket

\* C20: whenever a must-throw is pending, playerWhoTook is the id of a player of
\* the roster, also after the taker has rejoined on a new connection and after
\* the grace timer has removed a player.
C20_TakerInRoster ==
    \A rc \in DOMAIN gameRooms :
        (gameRooms[rc].gameStarted /\ gameRooms[rc].mustThrowAfterTaking) =>
            \E k \in DOMAIN gameRooms[rc].players :
                gameRooms[rc].players[k].id = gameRooms[rc].playerWhoTook

\* sock has a playCard, a revealBlindCard or a playCard2WithBlind that the room
\* accepts as it is now
CanResolve(g, sock) ==
    \/ \E cards \in PlayInputs(sock) : playCard(g, sock, cards).res = "ok"
    \/ \E blindIndex \in BlindIndexInputs :
           revealBlindCard(g, sock, blindIndex).res = "ok"
    \/ \E card2s \in Card2Inputs(sock) : \E blindIndex \in BlindIndexInputs :
           playCard2WithBlind(g, sock, card2s, blindIndex).res = "ok"

\* sock acts for the player of room rc who took the pile last
TakerOf(rc, sock) ==
    LET pi == FindPlayer(gameRooms[rc].players, sock)
    IN  pi # 0 /\ gameRooms[rc].players[pi].name = last.took[rc]

\* C21: whenever a must-throw is pending, the player who took the pile has at
\* least one command among playCard, revealBlindCard and playCard2WithBlind that
\* is accepted in the current state; the room is never left in the must-throw
\* state with a taker who can send nothing that is accepted.
C21_TakerCanResolve ==
    \A rc \in DOMAIN gameRooms :
        LET g == gameRooms[rc]
        IN  (g.gameStarted /\ ~g.gameEnded /\ g.mustThrowAfterTaking) =>
                \A sock \in Members(rc) :
                    TakerOf(rc, sock) => CanResolve(g, sock)

\* hand minimum: every player holds at least three hand cards or the deck is empty
HandMinimum(g) ==
    \/ g.deck = <<>>
    \/ \A k \in DOMAIN g.players : Len(g.players[k].handCards) >= HandSize

\* o is the outcome of an accepted command that has not ended the game
Accepted(o) == o.res = "ok" /\ o.ev # "gameEnded"

\* C22: hand minimum while the deck lasts.  In a started game that has not
\* ended, after any accepted playCard, playCard2WithBlind, takeTableCards or
\* revealBlindCard every player holds at least 3 hand cards or the deck is
\* empty; here for every command sent in a room in which that held before.
C22_HandMinimum ==
    \A rc \in DOMAIN gameRooms : \A sock \in Members(rc) :
        LET g == gameRooms[rc]
        IN  (g.gameStarted /\ ~g.gameEnded /\ HandMinimum(g)) =>
                /\ Accepted(takeTableCards(g, sock))
                       => HandMinimum(takeTableCards(g, sock).g)
                /\ \A cards \in PlayInputs(sock) :
                       Accepted(playCard(g, sock, cards))
                           => HandMinimum(playCard(g, sock, cards).g)
                /\ \A blindIndex \in BlindIndexInputs :
                       /\ Accepted(revealBlindCard(g, sock, blindIndex))
                              => HandMinimum(revealBlindCard(g, sock, blindIndex).g)
                       /\ \A card2s \in Card2Inputs(sock) :
                              Accepted(playCard2WithBlind(g, sock, card2s, blindIndex))
                                  => HandMinimum(playCard2WithBlind(g, sock, card2s,
                                                                    blindIndex).g)

\* the hand holds a card whose rank is not 2
HasOtherThanTwo(hand) ==
    \E k \in DOMAIN hand : hand[k] # Undef /\ hand[k].numericValue # 2

\* the hand is empty or holds nothing but 2s
OnlyTwos(hand) ==
    \A k \in DOMAIN hand : hand[k] # Undef /\ hand[k].numericValue = 2

\* C23: reveal gating.  A revealBlindCard of the player entitled to act is
\* rejected, with no card moved, whenever that player's hand holds a card whose
\* rank is not 2; a revealBlindCard is accepted only when the sender's hand is
\* empty or all 2s, and only for a blind index inside the sender's blind set.
C23_RevealGating ==
    \A rc \in DOMAIN gameRooms : \A sock \in Members(rc) :
        \A blindIndex \in BlindIndexInputs :
            LET g == gameRooms[rc]
                o == revealBlindCard(g, sock, blindIndex)
                pi == FindPlayer(g.players, sock)
            IN  /\ (Entitled(g, sock) /\ pi # 0
                    /\ HasOtherThanTwo(g.players[pi].handCards))
                       => Rejected(g, o)
                /\ o.res = "ok"
                       => /\ pi # 0
                          /\ OnlyTwos(g.players[pi].handCards)
                          /\ 0 <= blindIndex
                          /\ blindIndex < Len(g.players[pi].blindCards)

\* the room o.g is room g with blind card blindIndex of the player of sock moved
\* to the end of that player's hand, and nothing else changed
RevealFrame(g, sock, blindIndex, o) ==
    LET pi == FindPlayer(g.players, sock)
    IN  /\ Len(o.g.players) = Len(g.players)
        /\ o.g.players[pi].handCards
               = Append(g.players[pi].handCards, g.players[pi].blindCards[blindIndex + 1])
        /\ o.g.players[pi].blindCards
               = RemoveAt(g.players[pi].blindCards, blindIndex + 1)
        /\ \A m \in DOMAIN g.players :
               m # pi => /\ o.g.players[m].handCards = g.players[m].handCards
                         /\ o.g.players[m].blindCards = g.players[m].blindCards
        /\ o.g.currentPlayerIndex = g.currentPlayerIndex
        /\ o.g.skipNextPlayer = g.skipNextPlayer
        /\ o.g.tableCards = g.tableCards
        /\ o.g.lastCardValue = g.lastCardValue
        /\ o.g.deck = g.deck
        /\ o.g.mustThrowAfterTaking = g.mustThrowAfterTaking
        /\ o.g.playerWhoTook = g.playerWhoTook

\* the card an accepted revealBlindCard of sock reveals
revealedCard(g, sock, blindIndex) ==
    g.players[FindPlayer(g.players, sock)].blindCards[blindIndex + 1]

\* the blind cards sock has left after the reveal
blindLeft(g, sock, blindIndex) ==
    Len(g.players[FindPlayer(g.players, sock)].blindCards) - 1

\* C24 as the specification states it: an accepted revealBlindCard moves exactly
\* the named blind card to the actor's hand and changes nothing else, and the
\* reported canRevealAnother is true exactly when the revealed card is a 2.
C24_AnotherIffTwo ==
    \A rc \in DOMAIN gameRooms : \A sock \in Members(rc) :
        \A blindIndex \in BlindIndexInputs :
            LET g == gameRooms[rc]
                o == revealBlindCard(g, sock, blindIndex)
            IN  o.res = "ok" =>
                    /\ RevealFrame(g, sock, blindIndex, o)
                    /\ canRevealAnother(g, sock, blindIndex)
                           <=> revealedCard(g, sock, blindIndex).numericValue = 2

\* C24, amended: an accepted revealBlindCard moves exactly the named blind card
\* to the actor's hand and changes nothing else, and the reported
\* canRevealAnother is true exactly when the revealed card is a 2 and the actor
\* has a blind card left.
C24_RevealEffect ==
    \A rc \in DOMAIN gameRooms : \A sock \in Members(rc) :
        \A blindIndex \in BlindIndexInputs :
            LET g == gameRooms[rc]
                o == revealBlindCard(g, sock, blindIndex)
            IN  o.res = "ok" =>
                    /\ o.ev = "blindCardRevealed"
                    /\ RevealFrame(g, sock, blindIndex, o)
                    /\ canRevealAnother(g, sock, blindIndex)
                           <=> /\ revealedCard(g, sock, blindIndex).numericValue = 2
                               /\ blindLeft(g, sock, blindIndex) > 0

\* a player whose only blind card was a 2 has revealed it
C24_Witness ==
    \E rc \in DOMAIN gameRooms :
        LET g == gameRooms[rc]
            pi == FindPlayer(g.players, last.sock)
            hand == g.players[pi].handCards
        IN  /\ last.room = rc /\ last.cmd = "revealBlindCard"
            /\ last.ev = "blindCardRevealed"
            /\ pi # 0
            /\ g.players[pi].blindCards = <<>>
            /\ hand # <<>> /\ hand[Len(hand)].numericValue = 2

\* the list names cards of the hand that are 2s, each once
TwosOfHand(card2s, hand) ==
    /\ card2s # <<>>
    /\ \A k \in DOMAIN card2s :
           /\ card2s[k].numericValue = 2
           /\ \E m \in DOMAIN hand : hand[m] # Undef /\ SameCard(hand[m], card2s[k])
           /\ \A m \in DOMAIN card2s : m # k => ~SameCard(card2s[m], card2s[k])

\* C25: in a started game with no must-throw pending, a playCard2WithBlind of the
\* player at currentPlayerIndex that names 2s of that player's hand and a valid
\* blind index is accepted: the cards are on the pile and the turn has advanced.
C25_ComboForCurrentPlayer ==
    \A rc \in DOMAIN gameRooms : \A sock \in Members(rc) :
        \A card2s \in Card2Inputs(sock) : \A blindIndex \in BlindIndexInputs :
            LET g == gameRooms[rc]
                o == playCard2WithBlind(g, sock, card2s, blindIndex)
                pi == FindPlayer(g.players, sock)
            IN  (/\ g.gameStarted /\ ~g.gameEnded /\ ~g.mustThrowAfterTaking
                 /\ IndexValid(g) /\ pi = g.currentPlayerIndex + 1
                 /\ TwosOfHand(card2s, g.players[pi].handCards)
                 /\ 0 <= blindIndex /\ blindIndex < Len(g.players[pi].blindCards))
                    => /\ o.res = "ok"
                       /\ \/ Len(o.g.tableCards) = Len(g.tableCards) + Len(card2s) + 1
                          \/ o.g.tableCards = <<>>
                       /\ PlayedOn(o) =>
                              o.g.currentPlayerIndex
                                  \in {(g.currentPlayerIndex + 1) % Len(g.players),
                                       (g.currentPlayerIndex + 2) % Len(g.players)}

\* how often card c occurs in the sequence s
occurrences(s, c) == Cardinality({k \in DOMAIN s : s[k] = c})

\* the list names one card twice
NamesTwice(card2s) ==
    \E k, m \in DOMAIN card2s : k # m /\ SameCard(card2s[k], card2s[m])

\* lines 607-626: the submitted 2s, one hand card for each entry, and the named
\* blind card have left the sender, and they alone were put on the pile after
\* what lay there; lastCardValue is the blind card's value; a blind 10 (lines
\* 629-631) has then cleared the pile and set lastCardValue to 0
ComboMoved(g, sock, card2s, blindIndex, o) ==
    LET pi == FindPlayer(g.players, sock)
        hand == g.players[pi].handCards
        blind == g.players[pi].blindCards
        blindCard == blind[blindIndex + 1]
        played == SubSeq(o.g.tableCards, Len(g.tableCards) + 1, Len(o.g.tableCards))
    IN  /\ \A c \in DeckCards \cup {Undef} :
               occurrences(hand, c)
                   = occurrences(o.g.players[pi].handCards, c) + occurrences(card2s, c)
        /\ \A k \in DOMAIN card2s : card2s[k].numericValue = 2
        /\ o.g.players[pi].blindCards = RemoveAt(blind, blindIndex + 1)
        /\ IF blindCard.numericValue = 10
           THEN o.g.tableCards = <<>> /\ o.g.lastCardValue = 0
           ELSE /\ Len(o.g.tableCards) = Len(g.tableCards) + Len(card2s) + 1
                /\ SubSeq(o.g.tableCards, 1, Len(g.tableCards)) = g.tableCards
                /\ played[Len(played)] = blindCard
                /\ \A c \in DeckCards \cup {Undef} :
                       occurrences(played, c)
                           = occurrences(card2s, c) + occurrences(<<blindCard>>, c)
                /\ o.g.lastCardValue = blindCard.numericValue

\* C26: an accepted playCard2WithBlind removes from the sender's hand only 2s,
\* exactly one hand card per submitted entry, and exactly the named blind card;
\* these cards and no others are appended to the pile, and lastCardValue is the
\* blind card's value (0 if it is a 10).  A list that names the same 2 more than
\* once is rejected.
C26_ComboRemovesOnlyTwos ==
    \A rc \in DOMAIN gameRooms : \A sock \in Members(rc) :
        \A card2s \in Card2Inputs(sock) : \A blindIndex \in BlindIndexInputs :
            LET g == gameRooms[rc]
                o == playCard2WithBlind(g, sock, card2s, blindIndex)
            IN  o.res = "ok" =>
                    /\ ~NamesTwice(card2s)
                    /\ ComboMoved(g, sock, card2s, blindIndex, o)

\* sock acts for the player who created room rc, the first player ever added to
\* its roster
Creator(rc, sock) ==
    /\ last.made[rc] # NoSocket
    /\ FindPlayer(gameRooms[rc].players, sock) = 1
    /\ gameRooms[rc].players[1].name = last.made[rc]

\* line 353: at least 2 players and every one of them ready
allReady(g) ==
    Len(g.players) >= MinPlayers /\ \A k \in DOMAIN g.players : g.players[k].isReady

\* a startGame that is not the creator's, or finds fewer than 2 players or a
\* player not ready, is rejected and leaves the room in the lobby as it was
StartRefused ==
    \A rc \in DOMAIN gameRooms : \A sock \in Members(rc) :
        LET g == gameRooms[rc]
        IN  (~g.gameStarted /\ (~Creator(rc, sock) \/ ~allReady(g)))
                => Rejected(g, startGame(g, sock))

\* a room leaves the lobby only by a startGame of its creator with all ready
StartedByCreator ==
    \A rc \in (DOMAIN gameRooms) \cap (DOMAIN gameRooms') :
        (~gameRooms[rc].gameStarted /\ gameRooms'[rc].gameStarted)
            => /\ last'.room = rc /\ last'.cmd = "startGame"
               /\ Creator(rc, last'.sock)
               /\ allReady(gameRooms[rc])

\* C27: a room goes from lobby to started only through a startGame sent by the
\* creator while the roster has at least 2 players and every player in it is
\* ready; a startGame from anyone else, with fewer than 2 players, or with a
\* player not ready, leaves the room in the lobby with no cards dealt.
C27_StartPreconditions == []StartRefused /\ [][StartedByCreator]_vars

C29_StartOnce ==
    \A rc \in DOMAIN gameRooms : \A sock \in Members(rc) :
        LET g == gameRooms[rc]
            o == startGame(g, sock)
        IN  g.gameStarted => o.g = g /\ o.res = "ignored" /\ o.ev = ""

\* a game under way, the pile taken and the deal long gone, in which the creator
\* with everyone ready sends startGame again
C29_Witness ==
    \E rc \in DOMAIN gameRooms : \E sock \in Members(rc) :
        LET g == gameRooms[rc]
        IN  /\ g.gameStarted /\ ~g.gameEnded
            /\ last.room = rc /\ last.cmd = "takeTableCards" /\ warmup > 0
            /\ g.players[1].id = sock /\ allReady(g)
            /\ startGame(g, sock).res = "ignored"

\* every joinRoom for a code that names no room, for a room of six and for a
\* started room is rejected and leaves the registry, and so every roster, as it
\* was
JoinRefused ==
    \A sock \in DOMAIN conn : \A roomCode \in RoomCodes \cup {NoCode} :
        LET o == joinRoom(gameRooms, roomCode, sock, nameOf(sock))
        IN  (\/ roomCode \notin DOMAIN gameRooms
             \/ Len(gameRooms[roomCode].players) >= MaxPlayers
             \/ gameRooms[roomCode].gameStarted)
                => Rejected(gameRooms, o)

\* no roster holds more than six players
RosterBound ==
    \A rc \in DOMAIN gameRooms : Len(gameRooms[rc].players) <= MaxPlayers

\* the names on the roster of g
namesOf(g) == {g.players[k].name : k \in DOMAIN g.players}

\* a step adds no player to the roster of a started room
NoLateJoin ==
    \A rc \in (DOMAIN gameRooms) \cap (DOMAIN gameRooms') :
        gameRooms[rc].gameStarted
            => /\ Len(gameRooms'[rc].players) <= Len(gameRooms[rc].players)
               /\ namesOf(gameRooms'[rc]) \subseteq namesOf(gameRooms[rc])

\* C30: joinRoom admission.  A joinRoom is rejected, with the roster unchanged,
\* when the room code is unknown, when the roster already has 6 players, or
\* when the game has started; no roster ever holds more than 6 players and no
\* player is added to a roster after the game started.
C30_JoinAdmission == [](JoinRefused /\ RosterBound) /\ [][NoLateJoin]_vars

\* the sixth player has joined, and a seventh connection that sends joinRoom is
\* told the room is full
C30_Witness ==
    \E rc \in DOMAIN gameRooms : \E sock \in DOMAIN conn :
        /\ last.room = rc /\ last.cmd = "joinRoom" /\ last.res = "ok"
        /\ Len(gameRooms[rc].players) = MaxPlayers
        /\ sock \notin DOMAIN playerSockets
        /\ joinRoom(gameRooms, rc, sock, nameOf(sock)).res = "Room is full"

\* C31: only the creator, the first player ever added to the room, can start the
\* game.  Over every sequence of joins, disconnects, grace-timer removals and
\* rejoins no startGame of a player other than the creator is accepted, and the
\* creator, also after rejoining on a new connection, is the one whose startGame
\* with everyone ready is accepted.
C31_OnlyCreatorStarts ==
    \A rc \in DOMAIN gameRooms : \A sock \in Members(rc) :
        LET g == gameRooms[rc]
            o == startGame(g, sock)
        IN  /\ ~Creator(rc, sock) => o.res # "ok"
            /\ (Creator(rc, sock) /\ ~g.gameStarted /\ allReady(g))
                   => o.res = "ok" /\ o.g.gameStarted

\* a player without the fields that tell which connection holds the seat
seat(p) == [p EXCEPT !.id = NoSocket, !.disconnected = FALSE]

\* a room without the connection fields of its players: the roster in order,
\* hands and blind cards, turn pointer, pile, deck and flags
table(g) == [g EXCEPT !.players = [k \in DOMAIN g.players |-> seat(g.players[k])]]

\* the step is the firing of a timer whose room and player's name a rejoinRoom
\* has named since the timer was set
StaleTimerFires ==
    /\ timers # <<>> /\ timers' = Tail(timers)
    /\ Head(timers).rejoined

\* C32: when a rejoinRoom naming the room and the display name of a disconnected
\* player is processed before that disconnect's grace timer fires, the firing
\* removes nobody and changes no room; a disconnect and a rejoin change only
\* which connection holds a seat, so roster order, hands, blind cards, turn
\* pointer, pile and deck stay as they were, also when timers overlap
RejoinWins ==
    /\ StaleTimerFires => gameRooms' = gameRooms
    /\ last'.cmd \in {"disconnect", "rejoinRoom"} =>
           /\ DOMAIN gameRooms' = DOMAIN gameRooms
           /\ \A rc \in DOMAIN gameRooms : table(gameRooms'[rc]) = table(gameRooms[rc])

C32_RejoinWinsRace == [][RejoinWins]_vars

\* the players of room rc that hold the connection identity sock
holders(rooms, rc, sock) ==
    IF rc \in DOMAIN rooms
    THEN {k \in DOMAIN rooms[rc].players : rooms[rc].players[k].id = sock}
    ELSE {}

NonEmptyRosters == \A rc \in DOMAIN gameRooms : Len(gameRooms[rc].players) > 0

\* the step is the firing of the oldest timer
TimerFires == timers # <<>> /\ timers' = Tail(timers)

TimerWins ==
    /\ last'.cmd = "disconnect" =>
           /\ DOMAIN gameRooms' = DOMAIN gameRooms
           /\ \A rc \in DOMAIN gameRooms :
                  Len(gameRooms'[rc].players) = Len(gameRooms[rc].players)
    /\ TimerFires =>
           LET sock == Head(timers).sock
               rc == Head(timers).roomCode
               gone == {k \in holders(gameRooms, rc, sock) :
                            gameRooms[rc].players[k].disconnected}
           IN  gone # {} =>
                   /\ holders(gameRooms', rc, sock) = {}
                   /\ rc \notin DOMAIN gameRooms'
                          <=> gone = DOMAIN gameRooms[rc].players
                   /\ \A k \in gone : \A caller \in DOMAIN conn :
                          LET o == rejoinRoom(gameRooms', rc, caller,
                                              gameRooms[rc].players[k].name)
                          IN  o.res # "ok" /\ o.g = gameRooms'

\* C33: a disconnect removes nobody; a grace timer that fires while its player
\* is still disconnected removes the player, the room leaves the registry
\* exactly when the roster becomes empty, and a rejoinRoom for the removed
\* player's name is then rejected and changes no roster; every room in the
\* registry has a non-empty roster
C33_TimerWinsRace == []NonEmptyRosters /\ [][TimerWins]_vars

\* the state is the one an accepted rejoinRoom has left
Rejoined == last.cmd = "rejoinRoom" /\ last.res = "ok"

\* C34: the state message sent to a player who rejoins a started game names as
\* current player the id of the player at currentPlayerIndex and carries the
\* pile, the must-throw flags and the rejoiner's own hand; the message sent to a
\* player who rejoins a lobby reports every player who had declared ready as ready
C34_Resync ==
    Rejoined =>
        LET g == gameRooms[last.room]
            msg == resyncMessage(g, last.sock)
            me == FindPlayer(g.players, last.sock)
        IN  IF g.gameStarted
            THEN /\ IndexValid(g) =>
                        msg.currentPlayer = g.players[g.currentPlayerIndex + 1].id
                 /\ msg.tableCards = g.tableCards
                 /\ msg.mustThrowAfterTaking = g.mustThrowAfterTaking
                 /\ msg.playerWhoTook = g.playerWhoTook
                 /\ msg.players[me].handCards = g.players[me].handCards
            ELSE \A k \in DOMAIN g.players :
                     g.players[k].isReady =>
                         \/ msg.players[k].isReady
                         \/ g.players[k].id \in msg.playerReady

\* the grace timer removes a player of a started game who is not the player at
\* currentPlayerIndex, and the player at currentPlayerIndex afterwards is the
\* same one as before
TurnKept ==
    TimerFires =>
        LET sock == Head(timers).sock
            rc == Head(timers).roomCode
            g == gameRooms[rc]
            gone == {k \in holders(gameRooms, rc, sock) : g.players[k].disconnected}
        IN  (/\ gone # {}
             /\ g.gameStarted /\ IndexValid(g)
             /\ g.currentPlayerIndex + 1 \notin gone)
            => /\ rc \in DOMAIN gameRooms'
               /\ IndexValid(gameRooms'[rc])
               /\ gameRooms'[rc].players[gameRooms'[rc].currentPlayerIndex + 1].id
                      = g.players[g.currentPlayerIndex + 1].id

\* C35: when the grace timer removes a player other than the one whose turn it
\* is, the player whose turn it is stays the same, wherever in the roster the
\* removed player stood
C35_RemovalKeepsTurn == [][TurnKept]_vars

\* a command that was turned down left what it ran on as it was and sent
\* nothing to the room
Quiet(g, o) == o.res \notin {"ok", "TypeError"} => o.ev = "" /\ o.g = g

\* C36: every rejected joinRoom, startGame, takeTableCards, revealBlindCard,
\* playCard2WithBlind and rejoinRoom leaves every room as it was and sends
\* nothing to the room; its only message is the error to the sender
C36_ErrorPolicy ==
    /\ \A sock \in DOMAIN conn : \A roomCode \in RoomCodes \cup {NoCode} :
           \A name \in DOMAIN conn :
               /\ Quiet(gameRooms, joinRoom(gameRooms, roomCode, sock, name))
               /\ Quiet(gameRooms, rejoinRoom(gameRooms, roomCode, sock, name))
    /\ \A rc \in DOMAIN gameRooms : \A sock \in Members(rc) :
           LET g == gameRooms[rc]
           IN  /\ Quiet(g, startGame(g, sock))
               /\ Quiet(g, takeTableCards(g, sock))
               /\ \A blindIndex \in BlindIndexInputs :
                      /\ Quiet(g, revealBlindCard(g, sock, blindIndex))
                      /\ \A card2s \in Card2Inputs(sock) :
                             Quiet(g, playCard2WithBlind(g, sock, card2s, blindIndex))

\* a started game in which each of the six commands is refused to some sender:
\* the reveal for the cards in the hand, the combo for its blind index
C36_Witness ==
    \E rc \in DOMAIN gameRooms :
        LET g == gameRooms[rc]
        IN  /\ g.gameStarted
            /\ \E sock \in DOMAIN conn :
                   /\ joinRoom(gameRooms, rc, sock, nameOf(sock)).res
                          = "Game already started"
                   /\ rejoinRoom(gameRooms, rc, sock, NoSocket).res
                          = "Player not found in room"
            /\ \E sock \in Members(rc) : startGame(g, sock).res = "ignored"
            /\ \E sock \in Members(rc) : takeTableCards(g, sock).res = "Not your turn"
            /\ \E sock \in Members(rc) : \E blindIndex \in BlindIndexInputs :
                   revealBlindCard(g, sock, blindIndex).res
                       = "Can only reveal blind cards when hand is empty or all hand cards are 2s"
            /\ \E sock \in Members(rc) : \E blindIndex \in BlindIndexInputs :
                   \E card2s \in Card2Inputs(sock) :
                       playCard2WithBlind(g, sock, card2s, blindIndex).res
                           = "Invalid blind card index"

\* C37: in every room lastCardValue is the numeric value of the top card of the
\* pile, and 0 when the pile is empty
C37_LastCardValueIsTop ==
    \A rc \in DOMAIN gameRooms :
        LET g == gameRooms[rc]
        IN  IF g.tableCards = <<>>
            THEN g.lastCardValue = 0
            ELSE /\ g.tableCards[Len(g.tableCards)] # Undef
                 /\ g.lastCardValue = g.tableCards[Len(g.tableCards)].numericValue

C39_RejoinOnlyDisconnected ==
    \A sock \in (DOMAIN conn) \ (DOMAIN playerSockets) :
        \A rc \in DOMAIN gameRooms : \A name \in DOMAIN conn :
            LET o == rejoinRoom(gameRooms, rc, sock, name)
            IN  \A k \in DOMAIN gameRooms[rc].players :
                    ~gameRooms[rc].players[k].disconnected
                        => o.g[rc].players[k].id = gameRooms[rc].players[k].id

\* the (room, player) pairs of the rosters that hold the connection identity sock
seatsOf(sock) ==
    {<<rc, k>> \in (DOMAIN gameRooms) \X (1..MaxPlayers) :
        k \in DOMAIN gameRooms[rc].players /\ gameRooms[rc].players[k].id = sock}

\* C40: each connection identity is the id of at most one player over all
\* rosters, and playerSockets maps a connection to room R exactly when a player
\* of R's roster has that identity
C40_RegistryConsistent ==
    \A sock \in DOMAIN conn :
        /\ Cardinality(seatsOf(sock)) <= 1
        /\ \A rc \in RoomCodes :
               (sock \in DOMAIN playerSockets /\ playerSockets[sock] = rc)
                   <=> \E s \in seatsOf(sock) : s[1] = rc

====
